---- MODULE Spec2Model ----
(***************************************************************************)
(* gel-controller: the room occupancy state, the delayed-capture timer and *)
(* the camera state machine.                                               *)
(*                                                                         *)
(* Room (gel_controller/room.py) is written by the detector threads, one   *)
(* per detector, without a lock: the state setter is modelled statement by *)
(* statement so that the interleavings of two writers are explored.  Each  *)
(* label of pc is the source line the thread executes next.                *)
(* threading.Timer objects are modelled with their life cycle (created,    *)
(* started, cancelled, running the function, finished).                    *)
(* CameraState (gel_controller/camera_state.py) and Camera                 *)
(* (gel_controller/camera.py) are driven by one caller, as in the          *)
(* controller, where each camera has one poll thread.                      *)
(***************************************************************************)
EXTENDS Integers, Sequences, FiniteSets, Bags, TLC

\* ------------------------------------------------------------------ bounds
\* Time is counted in seconds and advances TickStep seconds at a time; the
\* wall clock of the camera history runs up to MaxTime.
MaxTime == 45
TickStep == 15
\* Timer objects whose thread is running at the same time.
MaxTimers == 2
\* Entries of a camera's state history.
MaxHistory == 4
\* Images one camera saves through capture_image.
MaxCaptures == 2
\* Threads the controller launches over its life.
MaxTasks == 3
\* Seconds of one step of the clock while a camera thread sleeps.
PollTick == 5

\* ------------------------------------------------------- program constants
\* Room._capture_delay, seconds
capture_delay == 30
\* Camera.__init__: poll_interval: float = 10.0
poll_interval == 10

\* The writers of Room.state: one thread per detector of the room.
Threads == {"d1", "d2"}
\* Room._cameras, in insertion order
RoomCameras == <<"cam1", "cam2">>
\* Room.room_id of the room the controller holds
ROOM_ID == "room1"
\* The values callers pass to the state setter
AssignValues == {"empty", "occupied", "invalid_state"}
\* The room ids callers pass to capture_baseline ("any" is room_id=None)
BaselineArgs == {"any", "room1", "nonexistent"}
\* The outcomes of one HTTP capture request
CaptureOutcomes == {"saved", "http_error", "exception"}
\* The outcomes of Camera.capture_image: those, or no request at all for a
\* camera without an IP address
CaptureImageOutcomes == CaptureOutcomes \cup {"no_ip"}


VARIABLES
    now,          \* datetime.now(), seconds (the camera history's clock)
    room_state,   \* Room._state; "none" before the constructor has set it
    empty_timer,  \* Room._empty_timer: NoTimer or the Timer object
    orphans,      \* the bag of running Timer objects the room no longer
                  \* references
    pc,           \* per writer thread: the line it executes next, or "idle"
    arg,          \* per writer thread: the setter's parameter `state`
    old_state,    \* per writer thread: the setter's local `old_state`
    baseline,     \* capture_baseline: 0 idle, else index of the next camera
    empty_for,    \* history: seconds since the last change of _state to
                  \* "empty", counted up to capture_delay
    cut_short,    \* history: the last empty period ended before capture_delay
    fired,        \* history: the timers that fired since _state last changed
                  \* from "occupied" to "empty", counted up to MaxTimers
    camera_state, \* Camera._camera_state: status, entered_at, history,
                  \* error_message
    saw_occupied, \* Camera._saw_occupied
    transit,      \* per caller of CameraState.transition_to: the line it
                  \* executes next, or "idle", and the call's arguments
    last_heartbeat_time, \* per detector: PersonDetector._last_heartbeat_time,
                  \* NoSignal for None
    heartbeat_timeout,   \* per detector: PersonDetector._heartbeat_timeout
    api_client,   \* per detector: PersonDetector._api_client, "None" or the
                  \* state of the APIClient object
    heartbeat_sensor_key, \* per detector: PersonDetector._heartbeat_sensor_key
    capture_count, \* per camera of the room: Camera.capture_count
    summary,      \* capture_baseline: the dict it builds and returns
    cameras,      \* Room._cameras: the Camera objects, in insertion order
    person_detectors, \* Room._person_detectors, in insertion order
    camera_states, \* per Camera object: its _camera_state and _saw_occupied
    rooms,        \* RoomController._rooms
    running,      \* RoomController._running
    threads,      \* RoomController._threads: the tasks shutdown will join
    tasks,        \* every task start() has launched: its device and the
                  \* place its loop has reached
    shutdown_pc,  \* shutdown(): 0 when not in a call, else the index in
                  \* _threads of the thread it joins next
    poll,         \* one camera's poll task: the place its loop has reached
                  \* and the time its sleep ends
    occupied_since, \* history: when the room last became occupied
    last          \* history: the last operation and its outcome

camVars == <<camera_state, saw_occupied, transit>>
detVars == <<last_heartbeat_time, heartbeat_timeout, api_client, heartbeat_sensor_key>>
ctlVars == <<capture_count, summary>>
memVars == <<cameras, person_detectors, camera_states>>
lifeVars == <<rooms, running, threads, tasks, shutdown_pc>>
pollVars == <<poll, occupied_since>>
extVars == <<memVars, lifeVars, pollVars>>
roomVars == <<room_state, empty_timer, orphans, pc, arg, old_state, baseline,
              empty_for, cut_short, fired>>

\* The members of a list
Range(seq) == {seq[i] : i \in 1..Len(seq)}

\* An operation that ended: its name, who ran it, its argument, what it saw
\* before it acted, and its outcome.
Ev(op, who, val, aux, res) == [op |-> op, who |-> who, val |-> val, aux |-> aux, res |-> res]
NoEvent == Ev("none", "", "", "", "")

\* ------------------------------------------------------------------- Room

\* valid_states of the state setter
valid_states_accepting_any == {"occupied", "empty", "invalid_state"}
valid_states == {"occupied", "empty"}

\* The branch of the state setter after the write: which timer operation a
\* change from old to new calls.
timer_action_on_every_empty(old, new) ==
    IF new = "empty" THEN "start"
    ELSE IF new = "occupied" /\ old = "empty" THEN "cancel"
    ELSE "none"
timer_action(old, new) ==
    IF old # new
    THEN IF new = "empty" /\ old = "occupied" THEN "start"
         ELSE IF new = "occupied" /\ old = "empty" THEN "cancel"
         ELSE "none"
    ELSE "none"

\* A threading.Timer object: its life cycle ("new" created, "new_cancelled"
\* cancelled before start, "armed" started and waiting, "firing" running
\* _trigger_capture, "done" finished), the seconds left of its interval once
\* started, and the index of the camera _trigger_capture handled last.
Timer(st, remaining, pos) == [st |-> st, remaining |-> remaining, pos |-> pos]
\* self._empty_timer = None
NoTimer == Timer("none", 0, 0)

\* The timer's thread is running: the object lives on when the room drops
\* its reference.
Alive(tm) == tm.st \in {"armed", "firing"}

\* threading.Timer.cancel(): sets the finished event.  A waiting timer thread
\* wakes up and ends without calling the function; a timer not yet started
\* will end as soon as it is started; a running or finished one is unaffected.
TimerCancel(tm) ==
    IF tm.st = "armed" THEN Timer("done", 0, 0)
    ELSE IF tm.st = "new" THEN Timer("new_cancelled", 0, 0)
    ELSE tm

\* threading.Timer.start() on a timer not started before.
TimerStarted(tm) ==
    IF tm.st = "new" THEN Timer("armed", capture_delay, 0) ELSE Timer("done", 0, 0)

One(tm) == SetToBag({tm})
\* The room drops its reference to tm: a running timer goes on unreferenced.
Dropped(tm) == IF Alive(tm) THEN One(tm) ELSE EmptyBag

\* The running timers: the one the room references and the unreferenced ones.
LiveTimers ==
    (IF Alive(empty_timer) THEN {<<"ref", empty_timer>>} ELSE {})
        \cup {<<"orphan", tm>> : tm \in DOMAIN orphans}
\* Timer x of LiveTimers becomes tm.
Becomes(x, tm) ==
    IF x[1] = "ref"
    THEN /\ empty_timer' = tm
         /\ UNCHANGED orphans
    ELSE /\ orphans' = (orphans (-) One(x[2])) (+) Dropped(tm)
         /\ UNCHANGED empty_timer

ArmedCount ==
    (IF empty_timer.st = "armed" THEN 1 ELSE 0)
        + BagCardinality([tm \in {x \in DOMAIN orphans : x.st = "armed"} |-> orphans[tm]])
LiveCount == (IF Alive(empty_timer) THEN 1 ELSE 0) + BagCardinality(orphans)

\* The setter returns, or an exception leaves it: the thread is idle again.
Return(t, res) ==
    /\ pc' = [pc EXCEPT ![t] = "idle"]
    /\ arg' = [arg EXCEPT ![t] = ""]
    /\ old_state' = [old_state EXCEPT ![t] = ""]
    /\ last' = Ev("set_state", t, arg[t], old_state[t], res)

Goto(t, label) ==
    /\ pc' = [pc EXCEPT ![t] = label]
    /\ UNCHANGED <<arg, old_state>>
    /\ last' = NoEvent

\* Room.__init__: _state = None, no timer, then the setter with
\* initial_state.  No other thread holds the object yet, so this is one step.
\* An invalid initial_state raises and no Room comes to exist.
Construct(v) ==
    /\ room_state = "none"
    /\ IF v \notin valid_states
       THEN /\ last' = Ev("Room", "", v, "none", "ValueError")
            /\ UNCHANGED room_state
       ELSE /\ room_state' = v
            /\ timer_action("none", v) = "none"
            /\ last' = Ev("Room", "", v, "none", "ok")
    /\ UNCHANGED <<now, camVars, detVars, ctlVars, extVars, empty_timer, orphans, pc, arg, old_state, baseline,
                   empty_for, cut_short, fired>>

\* state setter, lines 114-118: validate, then read old_state.
SetStateCall(t, v) ==
    /\ room_state # "none"
    /\ pc[t] = "idle"
    /\ IF v \notin valid_states
       THEN /\ last' = Ev("set_state", t, v, "", "ValueError")
            /\ UNCHANGED <<pc, arg, old_state>>
       ELSE /\ pc' = [pc EXCEPT ![t] = "l119"]
            /\ arg' = [arg EXCEPT ![t] = v]
            /\ old_state' = [old_state EXCEPT ![t] = room_state]
            /\ last' = NoEvent
    /\ UNCHANGED <<now, camVars, detVars, ctlVars, extVars, room_state, empty_timer, orphans, baseline, empty_for, cut_short, fired>>

\* state setter, lines 119-128: write _state, then branch on old_state.
SetStateWrite(t) ==
    /\ pc[t] = "l119"
    /\ room_state' = arg[t]
    /\ empty_for' = IF arg[t] = "empty" /\ room_state = "empty" THEN empty_for ELSE 0
    /\ cut_short' = IF arg[t] = "occupied" /\ room_state = "empty"
                    THEN empty_for < capture_delay
                    ELSE IF arg[t] = "empty" THEN FALSE
                    ELSE cut_short
    /\ fired' = IF arg[t] = "empty" /\ room_state = "occupied" THEN 0 ELSE fired
    /\ LET act == timer_action(old_state[t], arg[t]) IN
       IF act = "start" THEN Goto(t, "s143")
       ELSE IF act = "cancel" THEN Goto(t, "c143")
       ELSE Return(t, "ok")
    /\ UNCHANGED <<now, camVars, detVars, ctlVars, extVars, empty_timer, orphans, baseline>>

\* _cancel_empty_timer, line 143: if self._empty_timer is not None
CancelTest(t) ==
    /\ pc[t] \in {"s143", "c143"}
    /\ IF empty_timer # NoTimer
       THEN Goto(t, IF pc[t] = "s143" THEN "s144" ELSE "c144")
       ELSE IF pc[t] = "s143" THEN Goto(t, "l135") ELSE Return(t, "ok")
    /\ UNCHANGED <<now, camVars, detVars, ctlVars, extVars, room_state, empty_timer, orphans, baseline, empty_for, cut_short, fired>>

\* _cancel_empty_timer, line 144: self._empty_timer.cancel().  Another
\* thread may have set the field to None since line 143.
CancelCall(t) ==
    /\ pc[t] \in {"s144", "c144"}
    /\ IF empty_timer = NoTimer
       THEN /\ Return(t, "AttributeError")
            /\ UNCHANGED empty_timer
       ELSE /\ empty_timer' = TimerCancel(empty_timer)
            /\ Goto(t, IF pc[t] = "s144" THEN "s145" ELSE "c145")
    /\ UNCHANGED <<now, camVars, detVars, ctlVars, extVars, room_state, orphans, baseline, empty_for, cut_short, fired>>

\* _cancel_empty_timer, line 145: self._empty_timer = None
CancelClear(t) ==
    /\ pc[t] \in {"s145", "c145"}
    /\ empty_timer' = NoTimer
    /\ orphans' = orphans (+) Dropped(empty_timer)
    /\ IF pc[t] = "s145" THEN Goto(t, "l135") ELSE Return(t, "ok")
    /\ UNCHANGED <<now, camVars, detVars, ctlVars, extVars, room_state, baseline, empty_for, cut_short, fired>>

\* _start_empty_timer, line 135: self._empty_timer = threading.Timer(...)
TimerCreate(t) ==
    /\ pc[t] = "l135"
    /\ LiveCount < MaxTimers
    /\ empty_timer' = Timer("new", 0, 0)
    /\ orphans' = orphans (+) Dropped(empty_timer)
    /\ Goto(t, "l136")
    /\ UNCHANGED <<now, camVars, detVars, ctlVars, extVars, room_state, baseline, empty_for, cut_short, fired>>

\* _start_empty_timer, line 136: self._empty_timer.daemon = True
TimerSetDaemon(t) ==
    /\ pc[t] = "l136"
    /\ IF empty_timer = NoTimer THEN Return(t, "AttributeError") ELSE Goto(t, "l137")
    /\ UNCHANGED <<now, camVars, detVars, ctlVars, extVars, room_state, empty_timer, orphans, baseline, empty_for, cut_short, fired>>

\* _start_empty_timer, line 137: self._empty_timer.start().  The field is
\* read again: it may hold None or a timer another thread put there, and a
\* timer that was started before raises.
TimerStart(t) ==
    /\ pc[t] = "l137"
    /\ IF empty_timer = NoTimer
       THEN /\ Return(t, "AttributeError")
            /\ UNCHANGED empty_timer
       ELSE IF empty_timer.st \in {"new", "new_cancelled"}
       THEN /\ empty_timer' = TimerStarted(empty_timer)
            /\ Return(t, "ok")
       ELSE /\ Return(t, "RuntimeError")
            /\ UNCHANGED empty_timer
    /\ UNCHANGED <<now, camVars, detVars, ctlVars, extVars, room_state, orphans, baseline, empty_for, cut_short, fired>>

\* threading.Timer.run: the interval has elapsed and cancel() was not called;
\* _trigger_capture starts (lines 150-158).
TimerFire(x) ==
    /\ x[2].st = "armed"
    /\ x[2].remaining = 0
    /\ Becomes(x, Timer("firing", 0, 0))
    /\ last' = Ev("fire", "timer", "", "", "")
    /\ fired' = IF fired < MaxTimers THEN fired + 1 ELSE fired
    /\ UNCHANGED <<now, camVars, detVars, ctlVars, extVars, room_state, pc, arg, old_state, baseline, empty_for, cut_short>>

\* _trigger_capture, lines 160-181: the capture request for the next camera
\* of the room; after the last camera the timer thread ends.
TimerCapture(x, outcome) ==
    /\ x[2].st = "firing"
    /\ LET n == x[2].pos + 1 IN
        /\ Becomes(x, IF n = Len(RoomCameras) THEN Timer("done", 0, 0)
                      ELSE Timer("firing", 0, n))
        /\ last' = Ev("capture", "timer", RoomCameras[n], "", outcome)
    /\ UNCHANGED <<now, camVars, detVars, ctlVars, extVars, room_state, pc, arg, old_state, baseline, empty_for, cut_short, fired>>

\* The dict capture_baseline returns (a no-match result has no
\* captures_succeeded entry: 0 here).
Summary(ok, selected, requested, succeeded) ==
    [ok |-> ok, rooms |-> selected, captures_requested |-> requested,
     captures_succeeded |-> succeeded]

\* RoomController.capture_baseline, lines 142-147: select the rooms.
BaselineCall(rid) ==
    /\ room_state # "none"
    /\ baseline = 0
    /\ \A c \in DOMAIN capture_count : capture_count[c] < MaxCaptures
    /\ IF rid \in {"any", ROOM_ID}
       THEN /\ baseline' = 1
            /\ summary' = Summary(TRUE, 1, 0, 0)
            /\ last' = NoEvent
       ELSE /\ baseline' = 0
            /\ summary' = Summary(FALSE, 0, 0, 0)
            /\ last' = Ev("capture_baseline", "", rid, "", "no_match")
    /\ UNCHANGED <<now, camVars, detVars, extVars, capture_count, room_state, empty_timer,
                   orphans, pc, arg, old_state, empty_for, cut_short, fired>>

\* RoomController.capture_baseline, lines 151-161: camera.capture_image for
\* the next camera of the room (Camera.capture_image, lines 181-228: no
\* request for a camera without an IP address; capture_count is incremented
\* when the image is saved), then the counters; after the last camera the
\* summary is returned.
BaselineCapture_counting_every_request(outcome) ==
    /\ baseline > 0
    /\ baseline' = IF baseline = Len(RoomCameras) THEN 0 ELSE baseline + 1
    /\ LET camera == RoomCameras[baseline]
           captured == outcome = "saved"
       IN /\ capture_count' = IF captured
                              THEN [capture_count EXCEPT ![camera] = @ + 1]
                              ELSE capture_count
          /\ summary' = [summary EXCEPT
                           !.captures_requested = @ + 1,
                           !.captures_succeeded = @ + 1]
          /\ last' = Ev(IF outcome = "no_ip" THEN "capture_skipped" ELSE "capture",
                        "baseline", camera, "", outcome)
    /\ UNCHANGED <<now, camVars, detVars, extVars, room_state, empty_timer, orphans, pc, arg,
                   old_state, empty_for, cut_short, fired>>
BaselineCapture(outcome) ==
    /\ baseline > 0
    /\ baseline' = IF baseline = Len(RoomCameras) THEN 0 ELSE baseline + 1
    /\ LET camera == RoomCameras[baseline]
           captured == outcome = "saved"
       IN /\ capture_count' = IF captured
                              THEN [capture_count EXCEPT ![camera] = @ + 1]
                              ELSE capture_count
          /\ summary' = [summary EXCEPT
                           !.captures_requested = @ + 1,
                           !.captures_succeeded = IF captured THEN @ + 1 ELSE @]
          /\ last' = Ev(IF outcome = "no_ip" THEN "capture_skipped" ELSE "capture",
                        "baseline", camera, "", outcome)
    /\ UNCHANGED <<now, camVars, detVars, extVars, room_state, empty_timer, orphans, pc, arg,
                   old_state, empty_for, cut_short, fired>>

Max(a, b) == IF a >= b THEN a ELSE b
Min(a, b) == IF a <= b THEN a ELSE b

\* TickStep seconds of a timer's wait (threading.Timer.run waits `interval`
\* seconds).
Aged(tm) == IF tm.st = "armed" THEN Timer("armed", Max(0, tm.remaining - TickStep), 0) ELSE tm

RECURSIVE Copies(_, _)
Copies(B, S) ==
    IF S = {} THEN 0
    ELSE LET x == CHOOSE y \in S : TRUE IN B[x] + Copies(B, S \ {x})

\* TickStep seconds pass for the room: the started timers' intervals run
\* down and the empty period grows.  The room measures durations only.  The
\* setter runs in far less than a tick: no tick passes while a writer is
\* between two of its statements.
Elapse ==
    /\ room_state # "none"
    /\ \A t \in Threads : pc[t] = "idle"
    /\ empty_timer' = Aged(empty_timer)
    /\ orphans' = [tm \in {Aged(x) : x \in DOMAIN orphans} |->
                      Copies(orphans, {x \in DOMAIN orphans : Aged(x) = tm})]
    /\ empty_for' = IF room_state = "empty"
                    THEN Min(capture_delay, empty_for + TickStep) ELSE empty_for
    /\ last' = NoEvent
    /\ UNCHANGED <<now, camVars, detVars, ctlVars, extVars, room_state, pc, arg, old_state, baseline, cut_short, fired>>

\* ------------------------------------------------------- CameraState

CameraStatus == {"inactive", "active", "recording", "error", "calibrating", "offline"}
\* The reasons callers give; "None" is reason=None
Reasons == {"None", "lens fault"}

\* CameraState.TRANSITIONS
TRANSITIONS_without_error_to_inactive(s) ==
    CASE s = "offline" -> {"calibrating", "inactive", "active"}
      [] s = "calibrating" -> {"inactive", "error"}
      [] s = "inactive" -> {"active", "offline", "error"}
      [] s = "active" -> {"recording", "inactive", "offline", "error"}
      [] s = "recording" -> {"active", "inactive", "offline", "error"}
      [] s = "error" -> {"calibrating", "offline"}
TRANSITIONS_with_calibrating_to_active(s) ==
    CASE s = "offline" -> {"calibrating", "inactive", "active"}
      [] s = "calibrating" -> {"inactive", "error", "active"}
      [] s = "inactive" -> {"active", "offline", "error"}
      [] s = "active" -> {"recording", "inactive", "offline", "error"}
      [] s = "recording" -> {"active", "inactive", "offline", "error"}
      [] s = "error" -> {"calibrating", "offline", "inactive"}
TRANSITIONS_without_offline_to_active(s) ==
    CASE s = "offline" -> {"calibrating", "inactive"}
      [] s = "calibrating" -> {"inactive", "error"}
      [] s = "inactive" -> {"active", "offline", "error"}
      [] s = "active" -> {"recording", "inactive", "offline", "error"}
      [] s = "recording" -> {"active", "inactive", "offline", "error"}
      [] s = "error" -> {"calibrating", "offline", "inactive"}
TRANSITIONS(s) ==
    CASE s = "offline" -> {"calibrating", "inactive", "active"}
      [] s = "calibrating" -> {"inactive", "error"}
      [] s = "inactive" -> {"active", "offline", "error"}
      [] s = "active" -> {"recording", "inactive", "offline", "error"}
      [] s = "recording" -> {"active", "inactive", "offline", "error"}
      [] s = "error" -> {"calibrating", "offline", "inactive"}

\* CameraState.__init__ at time t
CameraStateInit(initial_status, t) ==
    [status |-> initial_status, entered_at |-> t,
     history |-> <<<<initial_status, t>>>>, error_message |-> "None"]

\* CameraState.transition_to at time t: the value returned and the state left.
transition_to_without_same_state_case(cs, new_status, reason, t) ==
    IF new_status \notin TRANSITIONS(cs.status)
    THEN [ret |-> FALSE, cs |-> cs]
    ELSE [ret |-> TRUE,
          cs |-> [status |-> new_status, entered_at |-> t,
                  history |-> Append(cs.history, <<new_status, t>>),
                  error_message |-> IF new_status = "error" THEN reason ELSE "None"]]
transition_to_replacing_last_entry(cs, new_status, reason, t) ==
    IF new_status = cs.status
    THEN [ret |-> TRUE, cs |-> cs]
    ELSE IF new_status \notin TRANSITIONS(cs.status)
    THEN [ret |-> FALSE, cs |-> cs]
    ELSE [ret |-> TRUE,
          cs |-> [status |-> new_status, entered_at |-> t,
                  history |-> [cs.history EXCEPT ![Len(cs.history)] = <<new_status, t>>],
                  error_message |-> IF new_status = "error" THEN reason ELSE "None"]]
transition_to_keeping_error_message(cs, new_status, reason, t) ==
    IF new_status = cs.status
    THEN [ret |-> TRUE, cs |-> cs]
    ELSE IF new_status \notin TRANSITIONS(cs.status)
    THEN [ret |-> FALSE, cs |-> cs]
    ELSE [ret |-> TRUE,
          cs |-> [status |-> new_status, entered_at |-> t,
                  history |-> Append(cs.history, <<new_status, t>>),
                  error_message |-> IF new_status = "error" THEN reason
                                    ELSE cs.error_message]]
transition_to(cs, new_status, reason, t) ==
    IF new_status = cs.status
    THEN [ret |-> TRUE, cs |-> cs]
    ELSE IF new_status \notin TRANSITIONS(cs.status)
    THEN [ret |-> FALSE, cs |-> cs]
    ELSE [ret |-> TRUE,
          cs |-> [status |-> new_status, entered_at |-> t,
                  history |-> Append(cs.history, <<new_status, t>>),
                  error_message |-> IF new_status = "error" THEN reason ELSE "None"]]

Bool(b) == IF b THEN "True" ELSE "False"

\* ------------------------------------------------------------------ Camera

\* Camera.set_status: the camera's state machine is asked for new_status.
SetStatus(new_status, reason) ==
    /\ Len(camera_state.history) < MaxHistory
    /\ LET r == transition_to(camera_state, new_status, reason, now) IN
        /\ camera_state' = r.cs
        /\ last' = Ev("transition_to", reason, new_status, camera_state.status, Bool(r.ret))
    /\ UNCHANGED <<now, saw_occupied>>
    /\ UNCHANGED <<roomVars, detVars, ctlVars, extVars>>
    /\ UNCHANGED transit

\* Camera.check_room_and_update_state(room), where room.state reads rs.
CheckRoom_activating_offline_camera(rs) ==
    /\ Len(camera_state.history) < MaxHistory
    /\ IF rs = "occupied"
       THEN /\ saw_occupied' = TRUE
            /\ camera_state' =
                 IF camera_state.status # "inactive"
                 THEN transition_to(camera_state, "inactive", "Room occupied", now).cs
                 ELSE camera_state
       ELSE IF camera_state.status = "offline"
       THEN /\ camera_state' =
                 transition_to(camera_state, "active", "Room empty", now).cs
            /\ UNCHANGED saw_occupied
       ELSE /\ camera_state' =
                 IF camera_state.status # "inactive"
                 THEN transition_to(camera_state, "inactive", "Room empty (idle)", now).cs
                 ELSE camera_state
            /\ saw_occupied' = FALSE
    /\ last' = Ev("check_room", "", rs, camera_state.status, "")
    /\ UNCHANGED now
    /\ UNCHANGED <<roomVars, detVars, ctlVars, extVars>>
    /\ UNCHANGED transit
CheckRoom_activating_on_empty(rs) ==
    /\ Len(camera_state.history) < MaxHistory
    /\ IF rs = "occupied"
       THEN /\ saw_occupied' = TRUE
            /\ camera_state' =
                 IF camera_state.status # "inactive"
                 THEN transition_to(camera_state, "inactive", "Room occupied", now).cs
                 ELSE camera_state
       ELSE IF camera_state.status = "offline"
       THEN /\ camera_state' =
                 transition_to(camera_state, "inactive", "Room empty (offline->inactive)", now).cs
            /\ UNCHANGED saw_occupied
       ELSE /\ camera_state' =
                 IF camera_state.status # "active"
                 THEN transition_to(camera_state, "active", "Room empty", now).cs
                 ELSE camera_state
            /\ saw_occupied' = FALSE
    /\ last' = Ev("check_room", "", rs, camera_state.status, "")
    /\ UNCHANGED now
    /\ UNCHANGED <<roomVars, detVars, ctlVars, extVars>>
    /\ UNCHANGED transit
CheckRoom(rs) ==
    /\ Len(camera_state.history) < MaxHistory
    /\ IF rs = "occupied"
       THEN /\ saw_occupied' = TRUE
            /\ camera_state' =
                 IF camera_state.status # "inactive"
                 THEN transition_to(camera_state, "inactive", "Room occupied", now).cs
                 ELSE camera_state
       ELSE IF camera_state.status = "offline"
       THEN /\ camera_state' =
                 transition_to(camera_state, "inactive", "Room empty (offline->inactive)", now).cs
            /\ UNCHANGED saw_occupied
       ELSE /\ camera_state' =
                 IF camera_state.status # "inactive"
                 THEN transition_to(camera_state, "inactive", "Room empty (idle)", now).cs
                 ELSE camera_state
            /\ saw_occupied' = FALSE
    /\ last' = Ev("check_room", "", rs, camera_state.status, "")
    /\ UNCHANGED now
    /\ UNCHANGED <<roomVars, detVars, ctlVars, extVars>>
    /\ UNCHANGED transit

\* The camera's clock advances.
Tick ==
    /\ now + TickStep <= MaxTime
    /\ now' = now + TickStep
    /\ last' = NoEvent
    /\ UNCHANGED <<camera_state, saw_occupied>>
    /\ UNCHANGED <<roomVars, detVars, ctlVars, extVars>>
    /\ UNCHANGED transit

\* The threads that call transition_to on one camera: the camera's poll
\* thread, through check_room_and_update_state, and the thread that calls
\* Room.set_camera_inactive or Camera.set_status.
Callers == {"poll", "admin"}
NoCall == [pc |-> "idle", new_status |-> "", reason |-> ""]

\* Caller c leaves transition_to with return value ret.
TransitReturn(c, ret) ==
    /\ transit' = [transit EXCEPT ![c] = NoCall]
    /\ last' = Ev("transition_to", c, transit[c].new_status, "", Bool(ret))

\* Caller c enters transition_to(new_status, reason).
TransitCall(c, new_status, reason) ==
    /\ transit[c].pc = "idle"
    /\ Len(camera_state.history)
          + Cardinality({x \in Callers : transit[x].pc # "idle"}) < MaxHistory
    /\ transit' = [transit EXCEPT
                      ![c] = [pc |-> "l103", new_status |-> new_status, reason |-> reason]]
    /\ last' = NoEvent
    /\ UNCHANGED <<now, camera_state, saw_occupied>>
    /\ UNCHANGED <<roomVars, detVars, ctlVars, extVars>>

\* transition_to, lines 103-104: the same-state test.
TransitSameTest(c) ==
    /\ transit[c].pc = "l103"
    /\ IF transit[c].new_status = camera_state.status
       THEN TransitReturn(c, TRUE)
       ELSE /\ transit' = [transit EXCEPT ![c].pc = "l107"]
            /\ last' = NoEvent
    /\ UNCHANGED <<now, camera_state, saw_occupied>>
    /\ UNCHANGED <<roomVars, detVars, ctlVars, extVars>>

\* transition_to, lines 107-111: the test against TRANSITIONS.
TransitAllowedTest(c) ==
    /\ transit[c].pc = "l107"
    /\ IF transit[c].new_status \notin TRANSITIONS(camera_state.status)
       THEN TransitReturn(c, FALSE)
       ELSE /\ transit' = [transit EXCEPT ![c].pc = "l118"]
            /\ last' = NoEvent
    /\ UNCHANGED <<now, camera_state, saw_occupied>>
    /\ UNCHANGED <<roomVars, detVars, ctlVars, extVars>>

\* transition_to, line 118: self._status = new_status
TransitWriteStatus(c) ==
    /\ transit[c].pc = "l118"
    /\ camera_state' = [camera_state EXCEPT !.status = transit[c].new_status]
    /\ transit' = [transit EXCEPT ![c].pc = "l119"]
    /\ last' = NoEvent
    /\ UNCHANGED <<now, saw_occupied>>
    /\ UNCHANGED <<roomVars, detVars, ctlVars, extVars>>

\* transition_to, line 119: self._entered_at = datetime.now()
TransitWriteEnteredAt(c) ==
    /\ transit[c].pc = "l119"
    /\ camera_state' = [camera_state EXCEPT !.entered_at = now]
    /\ transit' = [transit EXCEPT ![c].pc = "l120"]
    /\ last' = NoEvent
    /\ UNCHANGED <<now, saw_occupied>>
    /\ UNCHANGED <<roomVars, detVars, ctlVars, extVars>>

\* transition_to, line 120: self._history.append((new_status, self._entered_at))
TransitAppend(c) ==
    /\ transit[c].pc = "l120"
    /\ camera_state' = [camera_state EXCEPT !.history =
                            Append(@, <<transit[c].new_status, camera_state.entered_at>>)]
    /\ transit' = [transit EXCEPT ![c].pc = "l123"]
    /\ last' = NoEvent
    /\ UNCHANGED <<now, saw_occupied>>
    /\ UNCHANGED <<roomVars, detVars, ctlVars, extVars>>

\* transition_to, lines 123-134: the error message, then return True.
TransitErrorMessage(c) ==
    /\ transit[c].pc = "l123"
    /\ camera_state' = [camera_state EXCEPT !.error_message =
                            IF transit[c].new_status = "error"
                            THEN transit[c].reason ELSE "None"]
    /\ TransitReturn(c, TRUE)
    /\ UNCHANGED <<now, saw_occupied>>
    /\ UNCHANGED <<roomVars, detVars, ctlVars, extVars>>

\* ---------------------------------------------------------- PersonDetector

\* PersonDetector.__init__: heartbeat_timeout: float = 10.0
DefaultHeartbeatTimeout == 10
\* The heartbeat_timeout values detectors are constructed with, seconds
HeartbeatTimeouts == {DefaultHeartbeatTimeout, 15}
\* The heart rates the device reports, bpm
HeartRates == {-1, 0, 110}
\* self._last_heartbeat_time = None (time.time() is never negative)
NoSignal == -1

\* PersonDetector.__init__ of every detector of the room
InitDetectors(timeouts) ==
    /\ last_heartbeat_time = [d \in Threads |-> NoSignal]
    /\ heartbeat_timeout = timeouts
    /\ api_client = [d \in Threads |-> "None"]
    /\ heartbeat_sensor_key = [d \in Threads |-> "None"]

\* The state setter run to its end by one thread, no other thread being in
\* it: write _state, then _start_empty_timer (cancel the timer the room
\* references, create a new one and start it) or _cancel_empty_timer.
SetState(v) ==
    /\ room_state' = v
    /\ empty_for' = IF v = "empty" /\ room_state = "empty" THEN empty_for ELSE 0
    /\ cut_short' = IF v = "occupied" /\ room_state = "empty"
                    THEN empty_for < capture_delay
                    ELSE IF v = "empty" THEN FALSE
                    ELSE cut_short
    /\ fired' = IF v = "empty" /\ room_state = "occupied" THEN 0 ELSE fired
    /\ LET act == timer_action(room_state, v) IN
       IF act = "start"
       THEN /\ empty_timer' = TimerStarted(Timer("new", 0, 0))
            /\ orphans' = orphans (+) Dropped(TimerCancel(empty_timer))
       ELSE IF act = "cancel"
       THEN /\ empty_timer' = NoTimer
            /\ orphans' = orphans (+) Dropped(TimerCancel(empty_timer))
       ELSE UNCHANGED <<empty_timer, orphans>>

\* on_heartbeat_detected, line 240: if heart_rate > 0
valid_heartbeat_including_zero(heart_rate) == heart_rate >= 0
valid_heartbeat(heart_rate) == heart_rate > 0

\* PersonDetector.on_heartbeat_detected(heart_rate) of detector d: what it
\* does to the detector and the room
heartbeat_detected(d, heart_rate) ==
    /\ room_state # "none"
    /\ IF valid_heartbeat(heart_rate)
       THEN /\ last_heartbeat_time' = [last_heartbeat_time EXCEPT ![d] = now]
            /\ SetState("occupied")
       ELSE UNCHANGED <<last_heartbeat_time, room_state, empty_timer, orphans,
                        empty_for, cut_short, fired>>
on_heartbeat_detected(d, heart_rate) ==
    /\ heartbeat_detected(d, heart_rate)
    /\ last' = Ev("on_heartbeat_detected", d, ToString(heart_rate), room_state, "")

\* The keys of the entities a device reports states of; connect() takes the
\* key of the entity whose name contains 'heart rate'.
HeartbeatKey == "heart rate"
SensorKeys == {HeartbeatKey, "presence"}
\* The entities each device lists: d1 has no heart rate sensor.
Entities(d) == IF d = "d1" THEN {"presence"} ELSE SensorKeys

\* PersonDetector.connect() of detector d: a new APIClient, its connect(),
\* then the key of the heart rate entity if the device lists one (the key
\* of an earlier connect() stays otherwise); outcome "raise" when the
\* client's connect() raises.
connect(d, outcome) ==
    /\ api_client' = [api_client EXCEPT ![d] =
                          IF outcome = "raise" THEN "unconnected" ELSE "connected"]
    /\ IF outcome = "raise"
       THEN UNCHANGED heartbeat_sensor_key
       ELSE heartbeat_sensor_key' =
                [heartbeat_sensor_key EXCEPT ![d] =
                     IF HeartbeatKey \in Entities(d) THEN HeartbeatKey ELSE @]

\* connect() called by the detector's task
Connect(d, outcome) ==
    /\ room_state # "none"
    /\ connect(d, outcome)
    /\ last' = Ev("connect", d, "", "", IF outcome = "raise" THEN "raised" ELSE "")
    /\ UNCHANGED <<now, roomVars, camVars, ctlVars, extVars, last_heartbeat_time,
                   heartbeat_timeout>>

\* PersonDetector.handle_state_change(state) of detector d, state.key = key
\* and state.state = value: what it does to the detector and the room
handle_state_change_on_any_key(d, key, value) ==
    /\ room_state # "none"
    /\ IF value > 0
       THEN /\ heartbeat_detected(d, value)
            /\ last' = Ev("handle_state_change", d, ToString(value), key, "called")
       ELSE /\ UNCHANGED <<last_heartbeat_time, room_state, empty_timer, orphans,
                           empty_for, cut_short, fired>>
            /\ last' = Ev("handle_state_change", d, ToString(value), key, "ignored")
handle_state_change(d, key, value) ==
    /\ room_state # "none"
    /\ IF /\ heartbeat_sensor_key[d] # "None"
          /\ key = heartbeat_sensor_key[d]
          /\ value > 0
       THEN /\ heartbeat_detected(d, value)
            /\ last' = Ev("handle_state_change", d, ToString(value), key, "called")
       ELSE /\ UNCHANGED <<last_heartbeat_time, room_state, empty_timer, orphans,
                           empty_for, cut_short, fired>>
            /\ last' = Ev("handle_state_change", d, ToString(value), key, "ignored")

\* handle_state_change called by the device's state subscription
HandleStateChange(d, key, value) ==
    /\ key \in Entities(d)
    /\ handle_state_change(d, key, value)
    /\ UNCHANGED <<now, camVars, ctlVars, extVars, heartbeat_timeout, api_client,
                   heartbeat_sensor_key, pc, arg, old_state, baseline>>

\* on_heartbeat_detected called by the device's state subscription
OnHeartbeatDetected(d, heart_rate) ==
    /\ on_heartbeat_detected(d, heart_rate)
    /\ UNCHANGED <<now, camVars, ctlVars, extVars, heartbeat_timeout, api_client, heartbeat_sensor_key,
                   pc, arg, old_state, baseline>>

\* PersonDetector.on_heartbeat_timeout of detector d
OnHeartbeatTimeout_keeping_last_signal(d) ==
    /\ UNCHANGED last_heartbeat_time
    /\ SetState("empty")
OnHeartbeatTimeout(d) ==
    /\ last_heartbeat_time' = [last_heartbeat_time EXCEPT ![d] = NoSignal]
    /\ SetState("empty")

\* check_heartbeat_timeout, lines 270-272: time_since_heartbeat > timeout
timed_out_at_the_timeout(time_since_heartbeat, timeout) == time_since_heartbeat >= timeout
timed_out(time_since_heartbeat, timeout) == time_since_heartbeat > timeout

\* PersonDetector.check_heartbeat_timeout of detector d: what it does to
\* the detector and the room
check_heartbeat_timeout_without_none_test(d) ==
    /\ room_state # "none"
    /\ IF timed_out(now - last_heartbeat_time[d], heartbeat_timeout[d])
       THEN /\ OnHeartbeatTimeout(d)
            /\ last' = Ev("check_heartbeat_timeout", d, "", room_state, "timeout")
       ELSE /\ last' = Ev("check_heartbeat_timeout", d, "", room_state, "live")
            /\ UNCHANGED <<last_heartbeat_time, room_state, empty_timer, orphans,
                           empty_for, cut_short, fired>>
check_heartbeat_timeout(d) ==
    /\ room_state # "none"
    /\ IF last_heartbeat_time[d] = NoSignal
       THEN /\ last' = Ev("check_heartbeat_timeout", d, "", room_state, "never")
            /\ UNCHANGED <<last_heartbeat_time, room_state, empty_timer, orphans,
                           empty_for, cut_short, fired>>
       ELSE IF timed_out(now - last_heartbeat_time[d], heartbeat_timeout[d])
       THEN /\ OnHeartbeatTimeout(d)
            /\ last' = Ev("check_heartbeat_timeout", d, "", room_state, "timeout")
       ELSE /\ last' = Ev("check_heartbeat_timeout", d, "", room_state, "live")
            /\ UNCHANGED <<last_heartbeat_time, room_state, empty_timer, orphans,
                           empty_for, cut_short, fired>>

\* check_heartbeat_timeout called once a second by the detector's loop
CheckHeartbeatTimeout(d) ==
    /\ check_heartbeat_timeout(d)
    /\ UNCHANGED <<now, camVars, ctlVars, extVars, heartbeat_timeout, api_client, heartbeat_sensor_key,
                   pc, arg, old_state, baseline>>

\* The setter entered by detector d's thread with a valid state: line 118,
\* old_state = self._state.
EnterSetter(d, v) ==
    /\ pc' = [pc EXCEPT ![d] = "l119"]
    /\ arg' = [arg EXCEPT ![d] = v]
    /\ old_state' = [old_state EXCEPT ![d] = room_state]

\* on_heartbeat_detected on detector d's thread, up to the first statement
\* of the room's setter: the other detector's thread may run between the
\* statements that follow.
HeartbeatCall(d, heart_rate) ==
    /\ room_state # "none"
    /\ pc[d] = "idle"
    /\ IF valid_heartbeat(heart_rate)
       THEN /\ last_heartbeat_time' = [last_heartbeat_time EXCEPT ![d] = now]
            /\ EnterSetter(d, "occupied")
       ELSE UNCHANGED <<last_heartbeat_time, pc, arg, old_state>>
    /\ last' = Ev("on_heartbeat_detected", d, ToString(heart_rate), room_state, "")
    /\ UNCHANGED <<now, camVars, ctlVars, extVars, heartbeat_timeout, api_client,
                   heartbeat_sensor_key, room_state, empty_timer, orphans, baseline,
                   empty_for, cut_short, fired>>

\* check_heartbeat_timeout on detector d's thread, up to the first statement
\* of the room's setter when the detector has timed out.
TimeoutCall(d) ==
    /\ room_state # "none"
    /\ pc[d] = "idle"
    /\ IF last_heartbeat_time[d] = NoSignal
       THEN /\ last' = Ev("check_heartbeat_timeout", d, "", room_state, "never")
            /\ UNCHANGED <<last_heartbeat_time, pc, arg, old_state>>
       ELSE IF timed_out(now - last_heartbeat_time[d], heartbeat_timeout[d])
       THEN /\ last_heartbeat_time' = [last_heartbeat_time EXCEPT ![d] = NoSignal]
            /\ EnterSetter(d, "empty")
            /\ last' = Ev("check_heartbeat_timeout", d, "", room_state, "timeout")
       ELSE /\ last' = Ev("check_heartbeat_timeout", d, "", room_state, "live")
            /\ UNCHANGED <<last_heartbeat_time, pc, arg, old_state>>
    /\ UNCHANGED <<now, camVars, ctlVars, extVars, heartbeat_timeout, api_client,
                   heartbeat_sensor_key, room_state, empty_timer, orphans, baseline,
                   empty_for, cut_short, fired>>

\* TickStep seconds pass for the detectors, the room and its timers.
Wait ==
    /\ room_state # "none"
    /\ now + TickStep <= MaxTime
    /\ now' = now + TickStep
    /\ empty_timer' = Aged(empty_timer)
    /\ orphans' = [tm \in {Aged(x) : x \in DOMAIN orphans} |->
                      Copies(orphans, {x \in DOMAIN orphans : Aged(x) = tm})]
    /\ empty_for' = IF room_state = "empty"
                    THEN Min(capture_delay, empty_for + TickStep) ELSE empty_for
    /\ last' = NoEvent
    /\ UNCHANGED <<camVars, detVars, ctlVars, extVars, room_state, pc, arg, old_state, baseline, cut_short, fired>>

\* ------------------------------------------- Room: cameras and detectors

\* The Camera objects and the PersonDetector objects that exist
AllCameras == Range(RoomCameras)
AllDetectors == Threads

\* list.remove(x): the list without its first x
RECURSIVE Remove(_, _)
Remove(list, x) ==
    IF list = <<>> THEN <<>>
    ELSE IF Head(list) = x THEN Tail(list)
    ELSE <<Head(list)>> \o Remove(Tail(list), x)

\* A Camera object after Camera.__init__ at time t
CameraInit(initial_status, t) ==
    [cs |-> CameraStateInit(initial_status, t), saw_occupied |-> FALSE]

\* Room.add_camera(camera)
AddCamera_without_membership_test(camera) ==
    /\ room_state # "none"
    /\ Len(cameras) < Cardinality(AllCameras) + 1
    /\ cameras' = Append(cameras, camera)
    /\ last' = Ev("add_camera", "", camera, "", "added")
    /\ UNCHANGED <<person_detectors, camera_states>>
    /\ UNCHANGED <<now, roomVars, camVars, detVars, ctlVars, lifeVars, pollVars>>
AddCamera(camera) ==
    /\ room_state # "none"
    /\ IF camera \notin Range(cameras)
       THEN /\ cameras' = Append(cameras, camera)
            /\ last' = Ev("add_camera", "", camera, "", "added")
       ELSE /\ UNCHANGED cameras
            /\ last' = Ev("add_camera", "", camera, "", "already in room")
    /\ UNCHANGED <<person_detectors, camera_states>>
    /\ UNCHANGED <<now, roomVars, camVars, detVars, ctlVars, lifeVars, pollVars>>

\* Room.remove_camera(camera)
RemoveCamera(camera) ==
    /\ room_state # "none"
    /\ IF camera \in Range(cameras)
       THEN /\ cameras' = Remove(cameras, camera)
            /\ last' = Ev("remove_camera", "", camera, "", "removed")
       ELSE /\ UNCHANGED cameras
            /\ last' = Ev("remove_camera", "", camera, "", "not found")
    /\ UNCHANGED <<person_detectors, camera_states>>
    /\ UNCHANGED <<now, roomVars, camVars, detVars, ctlVars, lifeVars, pollVars>>

\* Room.add_person_detector(detector)
AddPersonDetector(detector) ==
    /\ room_state # "none"
    /\ IF detector \notin Range(person_detectors)
       THEN /\ person_detectors' = Append(person_detectors, detector)
            /\ last' = Ev("add_person_detector", "", detector, "", "added")
       ELSE /\ UNCHANGED person_detectors
            /\ last' = Ev("add_person_detector", "", detector, "", "already in room")
    /\ UNCHANGED <<cameras, camera_states>>
    /\ UNCHANGED <<now, roomVars, camVars, detVars, ctlVars, lifeVars, pollVars>>

\* Room.remove_person_detector(detector)
RemovePersonDetector(detector) ==
    /\ room_state # "none"
    /\ IF detector \in Range(person_detectors)
       THEN /\ person_detectors' = Remove(person_detectors, detector)
            /\ last' = Ev("remove_person_detector", "", detector, "", "removed")
       ELSE /\ UNCHANGED person_detectors
            /\ last' = Ev("remove_person_detector", "", detector, "", "not found")
    /\ UNCHANGED <<cameras, camera_states>>
    /\ UNCHANGED <<now, roomVars, camVars, detVars, ctlVars, lifeVars, pollVars>>

\* Room.set_camera_inactive(camera): camera.set_status(INACTIVE, reason) for a
\* camera of the room, a warning otherwise.
SetCameraInactive_ignoring_membership(camera) ==
    /\ room_state # "none"
    /\ LET r == transition_to(camera_states[camera].cs, "inactive",
                              "Forced by room controller", now)
       IN /\ camera_states' = [camera_states EXCEPT ![camera].cs = r.cs]
          /\ last' = Ev("set_camera_inactive", "", camera,
                        camera_states[camera].cs.status, Bool(r.ret))
    /\ UNCHANGED <<cameras, person_detectors>>
    /\ UNCHANGED <<now, roomVars, camVars, detVars, ctlVars, lifeVars, pollVars>>
SetCameraInactive(camera) ==
    /\ room_state # "none"
    /\ IF camera \in Range(cameras)
       THEN LET r == transition_to(camera_states[camera].cs, "inactive",
                                   "Forced by room controller", now)
            IN /\ camera_states' = [camera_states EXCEPT ![camera].cs = r.cs]
               /\ last' = Ev("set_camera_inactive", "", camera,
                             camera_states[camera].cs.status, Bool(r.ret))
       ELSE /\ UNCHANGED camera_states
            /\ last' = Ev("set_camera_inactive", "", camera,
                          camera_states[camera].cs.status, "not found")
    /\ UNCHANGED <<cameras, person_detectors>>
    /\ UNCHANGED <<now, roomVars, camVars, detVars, ctlVars, lifeVars, pollVars>>

\* ---------------------------------------------------------- RoomController

\* Camera.check_room_and_update_state(room) of a Camera object at time t,
\* where room.state reads rs: the object it leaves.
check_room_and_update_state(camera, rs, t) ==
    IF rs = "occupied"
    THEN [cs |-> IF camera.cs.status # "inactive"
                 THEN transition_to(camera.cs, "inactive", "Room occupied", t).cs
                 ELSE camera.cs,
          saw_occupied |-> TRUE]
    ELSE IF camera.cs.status = "offline"
    THEN [cs |-> transition_to(camera.cs, "inactive", "Room empty (offline->inactive)", t).cs,
          saw_occupied |-> camera.saw_occupied]
    ELSE [cs |-> IF camera.cs.status # "inactive"
                 THEN transition_to(camera.cs, "inactive", "Room empty (idle)", t).cs
                 ELSE camera.cs,
          saw_occupied |-> FALSE]

\* What a step of a task meets: it runs through, or an exception is raised
\* in it.
StepOutcomes == {"ok", "raise"}

\* A thread start() has just started: a camera thread is at the test of its
\* while loop, a detector thread at connect().  error names the call whose
\* exception a detector thread is handling, until the thread ends.
Task(kind, dev) ==
    [kind |-> kind, dev |-> dev,
     st |-> IF kind = "camera" THEN "test" ELSE "connect",
     error |-> "none"]

\* The threads start() creates, in its order: for each room, its cameras
\* and then its detectors.
Launched ==
    IF ROOM_ID \in Range(rooms)
    THEN [i \in 1..Len(cameras) |-> Task("camera", cameras[i])]
           \o [i \in 1..Len(person_detectors) |-> Task("detector", person_detectors[i])]
    ELSE <<>>

\* RoomController.add_room(room): the room is appended, then line 67 calls
\* room.set_capture_callback, which Room does not define.
AddRoom ==
    /\ room_state # "none"
    /\ IF ROOM_ID \notin Range(rooms)
       THEN /\ rooms' = Append(rooms, ROOM_ID)
            /\ last' = Ev("add_room", "", ROOM_ID, "", "AttributeError")
       ELSE /\ UNCHANGED rooms
            /\ last' = Ev("add_room", "", ROOM_ID, "", "already exists")
    /\ UNCHANGED <<running, threads, tasks, shutdown_pc>>
    /\ UNCHANGED <<now, roomVars, camVars, detVars, ctlVars, memVars, pollVars>>

\* RoomController.remove_room(room): the room is removed, then line 81 calls
\* room.set_capture_callback.
RemoveRoom ==
    /\ room_state # "none"
    /\ IF ROOM_ID \in Range(rooms)
       THEN /\ rooms' = Remove(rooms, ROOM_ID)
            /\ last' = Ev("remove_room", "", ROOM_ID, "", "AttributeError")
       ELSE /\ UNCHANGED rooms
            /\ last' = Ev("remove_room", "", ROOM_ID, "", "not found")
    /\ UNCHANGED <<running, threads, tasks, shutdown_pc>>
    /\ UNCHANGED <<now, roomVars, camVars, detVars, ctlVars, memVars, pollVars>>

\* _start_control_server, line 324: ThreadingHTTPServer binds the control
\* port, or raises OSError when it cannot.
BindOutcomes == {"ok", "OSError"}

\* RoomController.start(), called by the thread that also calls shutdown():
\* the guard, _running = True, _start_control_server() (no listener is left
\* from an earlier run: shutdown() has stopped it), then the threads.  An
\* OSError of the bind leaves start() at line 100.
Start_ignoring_running_flag(bind) ==
    /\ shutdown_pc = 0
    /\ running' = TRUE
    /\ IF bind = "OSError"
       THEN /\ last' = Ev("start", "", "", "", "OSError")
            /\ UNCHANGED <<threads, tasks>>
       ELSE /\ Len(tasks) + Len(Launched) <= MaxTasks
            /\ tasks' = tasks \o Launched
            /\ threads' = threads \o [i \in 1..Len(Launched) |-> Len(tasks) + i]
            /\ last' = Ev("start", "", "", "",
                          IF running THEN "already running" ELSE "started")
    /\ UNCHANGED <<rooms, shutdown_pc>>
    /\ UNCHANGED <<now, roomVars, camVars, detVars, ctlVars, memVars, pollVars>>
Start(bind) ==
    /\ shutdown_pc = 0
    /\ IF running
       THEN /\ last' = Ev("start", "", "", "", "already running")
            /\ UNCHANGED <<running, threads, tasks>>
       ELSE IF bind = "OSError"
       THEN /\ running' = TRUE
            /\ last' = Ev("start", "", "", "", "OSError")
            /\ UNCHANGED <<threads, tasks>>
       ELSE /\ Len(tasks) + Len(Launched) <= MaxTasks
            /\ running' = TRUE
            /\ tasks' = tasks \o Launched
            /\ threads' = threads \o [i \in 1..Len(Launched) |-> Len(tasks) + i]
            /\ last' = Ev("start", "", "", "", "started")
    /\ UNCHANGED <<rooms, shutdown_pc>>
    /\ UNCHANGED <<now, roomVars, camVars, detVars, ctlVars, memVars, pollVars>>

\* _run_camera_loop of task k: the test of the while loop and, when
\* _running is set, one pass through its body up to time.sleep.  An exception
\* in the body is caught outside the loop, which ends the thread.
CameraIteration_stopping_controller(k, outcome) ==
    /\ k \in DOMAIN tasks
    /\ tasks[k].kind = "camera"
    /\ tasks[k].st = "test"
    /\ IF ~running
       THEN /\ tasks' = [tasks EXCEPT ![k].st = "exited"]
            /\ UNCHANGED <<camera_states, running>>
       ELSE IF outcome = "raise"
       THEN /\ tasks' = [tasks EXCEPT ![k].st = "exited"]
            /\ running' = FALSE
            /\ UNCHANGED camera_states
       ELSE /\ tasks' = [tasks EXCEPT ![k].st = "sleep"]
            /\ camera_states' =
                 [camera_states EXCEPT ![tasks[k].dev] =
                     check_room_and_update_state(@, room_state, now)]
            /\ UNCHANGED running
    /\ last' = IF running /\ outcome = "raise"
               THEN Ev("_run_camera_loop", tasks[k].dev, "", "", "raised")
               ELSE NoEvent
    /\ UNCHANGED <<cameras, person_detectors, rooms, threads, shutdown_pc>>
    /\ UNCHANGED <<now, roomVars, camVars, detVars, ctlVars, pollVars>>
CameraIteration(k, outcome) ==
    /\ k \in DOMAIN tasks
    /\ tasks[k].kind = "camera"
    /\ tasks[k].st = "test"
    /\ IF ~running
       THEN /\ tasks' = [tasks EXCEPT ![k].st = "exited"]
            /\ UNCHANGED camera_states
       ELSE IF outcome = "raise"
       THEN /\ tasks' = [tasks EXCEPT ![k].st = "exited"]
            /\ UNCHANGED camera_states
       ELSE /\ tasks' = [tasks EXCEPT ![k].st = "sleep"]
            /\ camera_states' =
                 [camera_states EXCEPT ![tasks[k].dev] =
                     check_room_and_update_state(@, room_state, now)]
    /\ last' = IF running /\ outcome = "raise"
               THEN Ev("_run_camera_loop", tasks[k].dev, "", "", "raised")
               ELSE NoEvent
    /\ UNCHANGED <<cameras, person_detectors, rooms, running, threads, shutdown_pc>>
    /\ UNCHANGED <<now, roomVars, camVars, detVars, ctlVars, pollVars>>

\* _run_camera_loop of task k: time.sleep(camera.poll_interval) returns.
CameraWake(k) ==
    /\ k \in DOMAIN tasks
    /\ tasks[k].kind = "camera"
    /\ tasks[k].st = "sleep"
    /\ tasks' = [tasks EXCEPT ![k].st = "test"]
    /\ last' = NoEvent
    /\ UNCHANGED <<rooms, running, threads, shutdown_pc>>
    /\ UNCHANGED <<now, roomVars, camVars, detVars, ctlVars, memVars, pollVars>>

\* _async_detector_loop of task k: await detector.connect().  An exception
\* leaves the try block for the except clause, then the finally clause.
DetectorConnect(k, outcome) ==
    /\ k \in DOMAIN tasks
    /\ tasks[k].kind = "detector"
    /\ tasks[k].st = "connect"
    /\ tasks' = IF outcome = "raise"
                THEN [tasks EXCEPT ![k].st = "disconnect", ![k].error = "connect"]
                ELSE [tasks EXCEPT ![k].st = "subscribe"]
    /\ last' = IF outcome = "raise"
               THEN Ev("_async_detector_loop", tasks[k].dev, "", "connect", "raised")
               ELSE NoEvent
    /\ connect(tasks[k].dev, outcome)
    /\ UNCHANGED <<rooms, running, threads, shutdown_pc>>
    /\ UNCHANGED <<now, roomVars, camVars, ctlVars, memVars, pollVars,
                   last_heartbeat_time, heartbeat_timeout>>

\* _async_detector_loop of task k: await detector.subscribe_to_states().
DetectorSubscribe(k, outcome) ==
    /\ k \in DOMAIN tasks
    /\ tasks[k].kind = "detector"
    /\ tasks[k].st = "subscribe"
    /\ tasks' = IF outcome = "raise"
                THEN [tasks EXCEPT ![k].st = "disconnect", ![k].error = "subscribe"]
                ELSE [tasks EXCEPT ![k].st = "test"]
    /\ last' = IF outcome = "raise"
               THEN Ev("_async_detector_loop", tasks[k].dev, "", "subscribe", "raised")
               ELSE NoEvent
    /\ UNCHANGED <<rooms, running, threads, shutdown_pc>>
    /\ UNCHANGED <<now, roomVars, camVars, detVars, ctlVars, memVars, pollVars>>

\* _async_detector_loop of task k: the test of the while loop and, when
\* _running is set, detector.check_heartbeat_timeout() up to asyncio.sleep.
DetectorIteration(k, outcome) ==
    /\ k \in DOMAIN tasks
    /\ tasks[k].kind = "detector"
    /\ tasks[k].st = "test"
    /\ IF ~running
       THEN /\ tasks' = [tasks EXCEPT ![k].st = "disconnect"]
            /\ last' = NoEvent
            /\ UNCHANGED <<last_heartbeat_time, room_state, empty_timer, orphans,
                           empty_for, cut_short, fired>>
       ELSE IF outcome = "raise"
       THEN /\ tasks' = [tasks EXCEPT ![k].st = "disconnect", ![k].error = "check"]
            /\ last' = Ev("_async_detector_loop", tasks[k].dev, "", "check", "raised")
            /\ UNCHANGED <<last_heartbeat_time, room_state, empty_timer, orphans,
                           empty_for, cut_short, fired>>
       ELSE /\ tasks' = [tasks EXCEPT ![k].st = "sleep"]
            /\ check_heartbeat_timeout(tasks[k].dev)
    /\ UNCHANGED <<rooms, running, threads, shutdown_pc>>
    /\ UNCHANGED <<now, camVars, ctlVars, memVars, pollVars, heartbeat_timeout, api_client, heartbeat_sensor_key,
                   pc, arg,
                   old_state, baseline>>

\* _async_detector_loop of task k: asyncio.sleep(1) returns.
DetectorWake(k) ==
    /\ k \in DOMAIN tasks
    /\ tasks[k].kind = "detector"
    /\ tasks[k].st = "sleep"
    /\ tasks' = [tasks EXCEPT ![k].st = "test"]
    /\ last' = NoEvent
    /\ UNCHANGED <<rooms, running, threads, shutdown_pc>>
    /\ UNCHANGED <<now, roomVars, camVars, detVars, ctlVars, memVars, pollVars>>

\* The event loop of task k, idle in asyncio.sleep, delivers a state of the
\* subscribed device to handle_state_change.
DetectorHeartbeat(k, key, heart_rate) ==
    /\ k \in DOMAIN tasks
    /\ tasks[k].kind = "detector"
    /\ tasks[k].st = "sleep"
    /\ key \in Entities(tasks[k].dev)
    /\ handle_state_change(tasks[k].dev, key, heart_rate)
    /\ UNCHANGED lifeVars
    /\ UNCHANGED <<now, camVars, ctlVars, memVars, pollVars, heartbeat_timeout, api_client, heartbeat_sensor_key,
                   pc, arg,
                   old_state, baseline>>

\* PersonDetector.disconnect() of detector d, the client's disconnect()
\* ending with outcome: the result, "raised" when an exception leaves it
disconnect_without_except(d, outcome) ==
    IF api_client[d] = "None" THEN "no client"
    ELSE IF outcome = "raise" THEN "raised"
    ELSE "disconnected"
disconnect(d, outcome) ==
    IF api_client[d] = "None" THEN "no client"
    ELSE IF outcome = "raise" THEN "error logged"
    ELSE "disconnected"

\* _async_detector_loop of task k: the finally clause, await
\* detector.disconnect(); the thread ends.
DetectorDisconnect(k, outcome) ==
    /\ k \in DOMAIN tasks
    /\ tasks[k].kind = "detector"
    /\ tasks[k].st = "disconnect"
    /\ tasks' = [tasks EXCEPT ![k].st = "exited", ![k].error = "none"]
    /\ last' = Ev("disconnect", tasks[k].dev, "", api_client[tasks[k].dev],
                  disconnect(tasks[k].dev, outcome))
    /\ api_client' = [api_client EXCEPT ![tasks[k].dev] =
                          IF disconnect(tasks[k].dev, outcome) = "disconnected"
                          THEN "unconnected" ELSE @]
    /\ UNCHANGED <<rooms, running, threads, shutdown_pc>>
    /\ UNCHANGED <<now, roomVars, camVars, ctlVars, memVars, pollVars,
                   last_heartbeat_time, heartbeat_timeout, heartbeat_sensor_key>>

\* The steps of task k
TaskStep(k) ==
    \/ \E o \in StepOutcomes : CameraIteration(k, o)
    \/ CameraWake(k)
    \/ \E o \in StepOutcomes : DetectorConnect(k, o)
    \/ \E o \in StepOutcomes : DetectorSubscribe(k, o)
    \/ \E o \in StepOutcomes : DetectorIteration(k, o)
    \/ DetectorWake(k)
    \/ \E o \in StepOutcomes : DetectorDisconnect(k, o)

\* RoomController.shutdown(), lines 421-428: the guard, then the flag.
ShutdownCall ==
    /\ shutdown_pc = 0
    /\ IF ~running
       THEN /\ last' = Ev("shutdown", "", "", "", "not running")
            /\ UNCHANGED <<running, shutdown_pc>>
       ELSE /\ running' = FALSE
            /\ shutdown_pc' = 1
            /\ last' = NoEvent
    /\ UNCHANGED <<rooms, threads, tasks>>
    /\ UNCHANGED <<now, roomVars, camVars, detVars, ctlVars, memVars, pollVars>>

\* A thread that does not end within the 5 seconds of join(timeout=5.0): a
\* camera thread in time.sleep(poll_interval), 10 seconds by default, or a
\* detector thread waiting for its device in connect().
Blocked(task) ==
    \/ task.kind = "camera" /\ task.st = "sleep"
    \/ task.kind = "detector" /\ task.st = "connect"

\* RoomController.shutdown(), lines 431-434: thread.join(timeout=5.0) of the
\* next thread of _threads returns, the thread ended or not.
ShutdownJoin ==
    /\ shutdown_pc \in 1..Len(threads)
    /\ LET task == tasks[threads[shutdown_pc]] IN
        /\ task.st = "exited" \/ Blocked(task)
        /\ last' = Ev("join", "", task.dev, task.st,
                      IF task.st = "exited" THEN "joined" ELSE "did not stop")
    /\ shutdown_pc' = shutdown_pc + 1
    /\ UNCHANGED <<rooms, running, threads, tasks>>
    /\ UNCHANGED <<now, roomVars, camVars, detVars, ctlVars, memVars, pollVars>>

\* RoomController.shutdown(), lines 436-437: _threads.clear() and return.
ShutdownReturn ==
    /\ shutdown_pc = Len(threads) + 1
    /\ threads' = <<>>
    /\ shutdown_pc' = 0
    /\ last' = Ev("shutdown", "", "", "", "complete")
    /\ UNCHANGED <<rooms, running, tasks>>
    /\ UNCHANGED <<now, roomVars, camVars, detVars, ctlVars, memVars, pollVars>>

\* ------------------------------------------ one camera thread, with time

\* _run_camera_loop of the camera's thread at time now: the test of the while
\* loop and, when _running is set, check_room_and_update_state(room) and the
\* start of time.sleep(camera.poll_interval).  The body runs in far less than
\* a tick.
PollIteration_sleeping_two_intervals(outcome) ==
    /\ room_state # "none"
    /\ poll.st = "test"
    /\ IF ~running \/ outcome = "raise"
       THEN /\ poll' = [poll EXCEPT !.st = "exited"]
            /\ UNCHANGED camVars
       ELSE LET camera == check_room_and_update_state(
                              [cs |-> camera_state, saw_occupied |-> saw_occupied],
                              room_state, now)
            IN /\ camera_state' = camera.cs
               /\ saw_occupied' = camera.saw_occupied
               /\ poll' = [st |-> "sleep", wake |-> now + 2 * poll_interval]
    /\ last' = Ev("_run_camera_loop", "", room_state, camera_state.status,
                  IF ~running THEN "stopped" ELSE IF outcome = "raise" THEN "raised" ELSE "")
    /\ UNCHANGED <<now, roomVars, detVars, ctlVars, memVars, lifeVars, occupied_since>>
    /\ UNCHANGED transit
PollIteration(outcome) ==
    /\ room_state # "none"
    /\ poll.st = "test"
    /\ IF ~running \/ outcome = "raise"
       THEN /\ poll' = [poll EXCEPT !.st = "exited"]
            /\ UNCHANGED camVars
       ELSE LET camera == check_room_and_update_state(
                              [cs |-> camera_state, saw_occupied |-> saw_occupied],
                              room_state, now)
            IN /\ camera_state' = camera.cs
               /\ saw_occupied' = camera.saw_occupied
               /\ poll' = [st |-> "sleep", wake |-> now + poll_interval]
    /\ last' = Ev("_run_camera_loop", "", room_state, camera_state.status,
                  IF ~running THEN "stopped" ELSE IF outcome = "raise" THEN "raised" ELSE "")
    /\ UNCHANGED <<now, roomVars, detVars, ctlVars, memVars, lifeVars, occupied_since>>
    /\ UNCHANGED transit

\* time.sleep(camera.poll_interval) returns.
PollWake ==
    /\ poll.st = "sleep"
    /\ now = poll.wake
    /\ poll' = [poll EXCEPT !.st = "test"]
    /\ last' = NoEvent
    /\ UNCHANGED <<now, roomVars, camVars, detVars, ctlVars, memVars, lifeVars, occupied_since>>

\* A detector assigns v to Room.state at time now.
PollRoomAssign(v) ==
    /\ room_state # "none"
    /\ SetState(v)
    /\ occupied_since' = IF v # "occupied" THEN NoSignal
                         ELSE IF room_state = "occupied" THEN occupied_since
                         ELSE now
    /\ last' = Ev("set_state", "", v, room_state, "ok")
    /\ UNCHANGED <<now, camVars, detVars, ctlVars, memVars, lifeVars, poll, pc, arg,
                   old_state, baseline>>

\* dt seconds of a timer's wait
AgedBy(tm, dt) ==
    IF tm.st = "armed" THEN Timer("armed", Max(0, tm.remaining - dt), 0) ELSE tm

\* Time passes, up to the end of the camera thread's sleep and by PollTick
\* seconds at most; none passes while the thread is in its loop body.
PollElapse ==
    /\ room_state # "none"
    /\ poll.st # "test"
    /\ poll.st = "sleep" => now < poll.wake
    /\ LET dt == IF poll.st = "sleep" THEN Min(PollTick, poll.wake - now) ELSE PollTick IN
        /\ now + dt <= MaxTime
        /\ now' = now + dt
        /\ empty_timer' = AgedBy(empty_timer, dt)
        /\ orphans' = [tm \in {AgedBy(x, dt) : x \in DOMAIN orphans} |->
                          Copies(orphans, {x \in DOMAIN orphans : AgedBy(x, dt) = tm})]
        /\ empty_for' = IF room_state = "empty"
                        THEN Min(capture_delay, empty_for + dt) ELSE empty_for
    /\ last' = NoEvent
    /\ UNCHANGED <<camVars, detVars, ctlVars, memVars, lifeVars, poll, occupied_since,
                   room_state, pc, arg, old_state, baseline, cut_short, fired>>

\* ---------------------------------------------------------- specifications

vars == <<now, room_state, empty_timer, orphans, pc, arg, old_state, baseline,
          empty_for, cut_short, fired, camera_state, saw_occupied, transit,
          last_heartbeat_time, heartbeat_timeout, api_client,
          heartbeat_sensor_key, capture_count, summary,
          cameras, person_detectors, camera_states, rooms, running, threads, tasks,
          shutdown_pc, poll, occupied_since, last>>

InitRoom ==
    /\ room_state = "none"
    /\ empty_timer = NoTimer
    /\ orphans = EmptyBag
    /\ pc = [t \in Threads |-> "idle"]
    /\ arg = [t \in Threads |-> ""]
    /\ old_state = [t \in Threads |-> ""]
    /\ baseline = 0
    /\ empty_for = 0
    /\ cut_short = FALSE
    /\ fired = 0

\* Camera.__init__ with initial_status
InitCamera(initial_status) ==
    /\ camera_state = CameraStateInit(initial_status, 0)
    /\ saw_occupied = FALSE
    /\ transit = [c \in Callers |-> NoCall]

\* Camera.__init__ of the room's cameras (capture_count = 0); no
\* capture_baseline call has returned.
InitController ==
    /\ capture_count = [c \in Range(RoomCameras) |-> 0]
    /\ summary = Summary(FALSE, 0, 0, 0)

\* The room's collections as the controller's caller filled them, every
\* Camera constructed with the default initial_status.
InitMembers ==
    /\ cameras = RoomCameras
    /\ person_detectors = <<"d1", "d2">>
    /\ camera_states = [c \in AllCameras |-> CameraInit("offline", 0)]

\* RoomController.__init__: no room, not running, no thread.
InitLife ==
    /\ rooms = <<>>
    /\ running = FALSE
    /\ threads = <<>>
    /\ tasks = <<>>
    /\ shutdown_pc = 0

\* No poll task.
InitPoll ==
    /\ poll = [st |-> "none", wake |-> 0]
    /\ occupied_since = NoSignal

\* One writer thread's steps through the state setter.
Writer(t) ==
    \/ \E v \in AssignValues : SetStateCall(t, v)
    \/ SetStateWrite(t)
    \/ CancelTest(t)
    \/ CancelCall(t)
    \/ CancelClear(t)
    \/ TimerCreate(t)
    \/ TimerSetDaemon(t)
    \/ TimerStart(t)

TimerThreads ==
    \/ \E x \in LiveTimers : TimerFire(x)
    \/ \E x \in LiveTimers, o \in CaptureOutcomes : TimerCapture(x, o)

\* The room and its delayed-capture timer under the detector threads.
Init ==
    /\ now = 0
    /\ InitRoom
    /\ InitCamera("offline")
    /\ InitDetectors([d \in Threads |-> DefaultHeartbeatTimeout])
    /\ InitController
    /\ InitMembers
    /\ InitLife
    /\ InitPoll
    /\ last = NoEvent

Next ==
    \/ \E v \in AssignValues : Construct(v)
    \/ \E t \in Threads : Writer(t)
    \/ TimerThreads
    \/ Elapse

Spec == Init /\ [][Next]_vars

\* The control plane: capture_baseline beside the room, its timer and one
\* detector thread.
NextControl ==
    \/ \E v \in AssignValues : Construct(v)
    \/ Writer("d1")
    \/ TimerThreads
    \/ \E r \in BaselineArgs : BaselineCall(r)
    \/ \E o \in CaptureImageOutcomes : BaselineCapture(o)
    \/ Elapse

SpecControl == Init /\ [][NextControl]_vars

\* One camera and its state machine, driven by its poll thread.
InitCameraSpec ==
    /\ now = 0
    /\ InitRoom
    /\ \E s \in CameraStatus : InitCamera(s)
    /\ InitDetectors([d \in Threads |-> DefaultHeartbeatTimeout])
    /\ InitController
    /\ InitMembers
    /\ InitLife
    /\ InitPoll
    /\ last = NoEvent

NextCamera ==
    \/ \E s \in CameraStatus, r \in Reasons : SetStatus(s, r)
    \/ \E rs \in valid_states : CheckRoom(rs)
    \/ Tick

SpecCamera == InitCameraSpec /\ [][NextCamera]_vars

\* One camera's state machine under two threads that call transition_to,
\* interleaved statement by statement: the poll thread, which asks for
\* INACTIVE (camera.py, lines 166-175), and a thread calling set_status.
NextTransit ==
    \/ TransitCall("poll", "inactive", "None")
    \/ \E s \in CameraStatus : TransitCall("admin", s, "lens fault")
    \/ \E c \in Callers :
          \/ TransitSameTest(c)
          \/ TransitAllowedTest(c)
          \/ TransitWriteStatus(c)
          \/ TransitWriteEnteredAt(c)
          \/ TransitAppend(c)
          \/ TransitErrorMessage(c)

SpecTransit == InitCameraSpec /\ [][NextTransit]_vars

\* The detectors of one room: each handler runs to its end before the next
\* starts (the interleavings of the setter are those of Spec).
InitDetectorSpec ==
    /\ now = 0
    /\ InitRoom
    /\ InitCamera("offline")
    /\ \E timeouts \in [Threads -> HeartbeatTimeouts] : InitDetectors(timeouts)
    /\ InitController
    /\ InitMembers
    /\ InitLife
    /\ InitPoll
    /\ last = NoEvent

NextDetector ==
    \/ \E v \in AssignValues : Construct(v)
    \/ \E d \in Threads, h \in HeartRates : OnHeartbeatDetected(d, h)
    \/ \E d \in Threads, o \in StepOutcomes : Connect(d, o)
    \/ \E d \in Threads, key \in SensorKeys, h \in HeartRates :
           HandleStateChange(d, key, h)
    \/ \E d \in Threads : CheckHeartbeatTimeout(d)
    \/ TimerThreads
    \/ Wait

SpecDetector == InitDetectorSpec /\ [][NextDetector]_vars

\* The detectors' threads, each in its own handlers, interleaved statement
\* by statement inside the room's setter; time passes while no thread is
\* inside the setter.
NextThreads ==
    \/ \E v \in AssignValues : Construct(v)
    \/ \E d \in Threads, h \in HeartRates : HeartbeatCall(d, h)
    \/ \E d \in Threads : TimeoutCall(d)
    \/ \E t \in Threads :
          \/ SetStateWrite(t)
          \/ CancelTest(t)
          \/ CancelCall(t)
          \/ CancelClear(t)
          \/ TimerCreate(t)
          \/ TimerSetDaemon(t)
          \/ TimerStart(t)
    \/ TimerThreads
    \/ (\A t \in Threads : pc[t] = "idle") /\ Wait

SpecThreads == Init /\ [][NextThreads]_vars

\* One room's collections and its cameras' states under its callers: the
\* room is constructed and empty-handed, the Camera objects exist with any
\* initial status.
InitMembersSpec ==
    /\ now = 0
    /\ InitRoom
    /\ InitCamera("offline")
    /\ InitDetectors([d \in Threads |-> DefaultHeartbeatTimeout])
    /\ InitController
    /\ cameras = <<>>
    /\ person_detectors = <<>>
    /\ camera_states \in [AllCameras -> {CameraInit(s, 0) : s \in CameraStatus}]
    /\ InitLife
    /\ InitPoll
    /\ last = NoEvent

NextMembers ==
    \/ \E v \in AssignValues : Construct(v)
    \/ \E c \in AllCameras : AddCamera(c)
    \/ \E c \in AllCameras : RemoveCamera(c)
    \/ \E d \in AllDetectors : AddPersonDetector(d)
    \/ \E d \in AllDetectors : RemovePersonDetector(d)
    \/ \E c \in AllCameras : SetCameraInactive(c)

SpecMembers == InitMembersSpec /\ [][NextMembers]_vars

\* The controller of one room: its caller (add_room, remove_room, start,
\* shutdown), the threads start() launches and the devices' heartbeats.  The
\* room's collections are filled before the room is registered.
InitLifeSpec ==
    /\ now = 0
    /\ InitRoom
    /\ InitCamera("offline")
    /\ InitDetectors([d \in Threads |-> DefaultHeartbeatTimeout])
    /\ InitController
    /\ cameras = <<"cam1">>
    /\ person_detectors \in {<<>>, <<"d1", "d2">>}
    /\ camera_states = [c \in AllCameras |-> CameraInit("offline", 0)]
    /\ InitLife
    /\ InitPoll
    /\ last = NoEvent

NextLife ==
    \/ Construct("empty")
    \/ AddRoom
    \/ RemoveRoom
    \/ \E b \in BindOutcomes : Start(b)
    \/ \E k \in 1..MaxTasks : TaskStep(k)
    \/ \E k \in 1..MaxTasks, key \in SensorKeys, h \in HeartRates :
           DetectorHeartbeat(k, key, h)
    \/ ShutdownCall
    \/ ShutdownJoin
    \/ ShutdownReturn

SpecLife == InitLifeSpec /\ [][NextLife]_vars

\* A controller whose room has one person detector, from start() to after
\* shutdown(), with the room's timer and time; no step fails, and shutdown()
\* takes less than a tick.
InitTeardownSpec ==
    /\ now = 0
    /\ InitRoom
    /\ InitCamera("offline")
    /\ InitDetectors([d \in Threads |-> DefaultHeartbeatTimeout])
    /\ InitController
    /\ cameras = <<>>
    /\ person_detectors = <<"d2">>
    /\ camera_states = [c \in AllCameras |-> CameraInit("offline", 0)]
    /\ InitLife
    /\ InitPoll
    /\ last = NoEvent

NextTeardown ==
    \/ Construct("empty")
    \/ AddRoom
    \/ Start("ok")
    \/ \E k \in 1..MaxTasks :
          \/ DetectorConnect(k, "ok")
          \/ DetectorSubscribe(k, "ok")
          \/ DetectorIteration(k, "ok")
          \/ DetectorWake(k)
          \/ DetectorDisconnect(k, "ok")
    \/ \E k \in 1..MaxTasks, h \in {x \in HeartRates : x > 0} :
           DetectorHeartbeat(k, HeartbeatKey, h)
    \/ ShutdownCall
    \/ ShutdownJoin
    \/ ShutdownReturn
    \/ TimerThreads
    \/ shutdown_pc = 0 /\ Wait

SpecTeardown == InitTeardownSpec /\ [][NextTeardown]_vars

\* Every thread is scheduled, and so is the thread inside shutdown().
SpecLifeFair ==
    /\ SpecLife
    /\ \A k \in 1..MaxTasks : WF_vars(TaskStep(k))
    /\ WF_vars(ShutdownJoin)
    /\ WF_vars(ShutdownReturn)

\* One camera of a registered room after start(): its thread, the room's
\* state under the detectors' assignments, a caller that sets the camera
\* ACTIVE, the room's timers, and the clock.
InitPollSpec ==
    /\ now = 0
    /\ InitRoom
    /\ \E s \in CameraStatus : InitCamera(s)
    /\ InitDetectors([d \in Threads |-> DefaultHeartbeatTimeout])
    /\ InitController
    /\ InitMembers
    /\ rooms = <<ROOM_ID>>
    /\ running = TRUE
    /\ threads = <<>>
    /\ tasks = <<>>
    /\ shutdown_pc = 0
    /\ poll = [st |-> "test", wake |-> 0]
    /\ occupied_since = NoSignal
    /\ last = NoEvent

NextPoll ==
    \/ \E v \in valid_states : Construct(v)
    \/ \E o \in StepOutcomes : PollIteration(o)
    \/ PollWake
    \/ \E v \in valid_states : PollRoomAssign(v)
    \/ SetStatus("active", "None")
    \/ TimerThreads
    \/ PollElapse

SpecPoll == InitPollSpec /\ [][NextPoll]_vars

\* ------------------------------------------------------------------ claims

\* C1: a capture request is issued to a camera, by the delayed-capture timer
\* or by capture_baseline, only while the room is EMPTY and has been EMPTY
\* for at least capture_delay; none is issued while the room is OCCUPIED.
C1_CaptureOnlyAfterSustainedEmpty ==
    last.op = "capture" => (room_state = "empty" /\ empty_for >= capture_delay)

\* C3: when re-occupancy ends an empty period before capture_delay has
\* elapsed, the pending timer is cancelled and no capture fires for that
\* period: no delayed-capture timer fires while the room is still occupied
\* after such a period.
C3_NoFireAfterShortEmptyPeriod ==
    last.op = "fire" => ~cut_short

\* C4: at most one delayed-capture timer is armed per room, also when several
\* detector threads write the room's state concurrently.
C4_AtMostOneTimerArmed ==
    ArmedCount <= 1

\* C5: the delayed capture fires capture_delay after the most recent
\* OCCUPIED->EMPTY transition and never earlier: a timer that fires in an
\* empty room, no writer being inside the setter, fires when the room has
\* been empty for capture_delay.
C5_FireNotBeforeDelay ==
    (last.op = "fire" /\ room_state = "empty" /\ \A t \in Threads : pc[t] = "idle")
        => empty_for >= capture_delay

\* C6: Room.state is always EMPTY or OCCUPIED; assigning another value
\* through the setter or as the constructor's initial state fails with
\* ValueError and leaves the room's state and its timer unchanged.
C6_InvalidStateRejected ==
    [][/\ room_state' \in {"none", "empty", "occupied"}
       /\ (room_state # "none" => room_state' # "none")
       /\ (last'.op \in {"set_state", "Room"} /\ last'.val \notin {"empty", "occupied"})
            => (last'.res = "ValueError" /\ UNCHANGED <<room_state, empty_timer, orphans>>)
      ]_vars
C6_Witness ==
    /\ last.op = "set_state"
    /\ last.val = "invalid_state"
    /\ last.res = "ValueError"
    /\ room_state = "empty"
    /\ empty_timer.st = "armed"

\* C7: assigning a room the state the setter finds it in is a no-op on the
\* timer: the call returns after the write without cancelling, arming or
\* restarting a timer, for EMPTY on EMPTY (an armed timer keeps its deadline)
\* as for OCCUPIED on OCCUPIED.
C7_SameStateNoTimerChurn ==
    [][\A t \in Threads :
          (pc[t] = "l119" /\ old_state[t] = arg[t] /\ pc'[t] # "l119")
            => (pc'[t] = "idle" /\ last'.res = "ok" /\ UNCHANGED <<empty_timer, orphans>>)
      ]_vars
C7_Witness ==
    /\ last.op = "set_state"
    /\ last.val = "empty"
    /\ last.aux = "empty"
    /\ last.res = "ok"
    /\ empty_timer.st = "armed"
    /\ empty_timer.remaining < capture_delay

\* C2: whatever the camera's status, if the room is OCCUPIED when
\* check_room_and_update_state is called, the camera is INACTIVE when the
\* call returns, and the edge taken is the last entry of the history.
C2_OccupiedRoomForcesInactive ==
    (last.op = "check_room" /\ last.val = "occupied")
        => /\ camera_state.status = "inactive"
           /\ camera_state.history[Len(camera_state.history)][1] = "inactive"
C2_Witness ==
    /\ last.op = "check_room"
    /\ last.val = "occupied"
    /\ last.aux = "error"

\* The transition table as the specification states it (spec section 3).
TableRow(from) ==
    CASE from = "offline" -> {"calibrating", "inactive", "active"}
      [] from = "calibrating" -> {"inactive", "error"}
      [] from = "inactive" -> {"active", "offline", "error"}
      [] from = "active" -> {"recording", "inactive", "offline", "error"}
      [] from = "recording" -> {"active", "inactive", "offline", "error"}
      [] from = "error" -> {"calibrating", "offline", "inactive"}

\* C8: transition_to to a target that differs from the current status and is
\* not in the current status's row of the table returns false and leaves
\* status, entered_at, the history and the error message unchanged.
C8_EdgeNotInTableRejected ==
    [][(/\ last'.op = "transition_to"
        /\ last'.val # camera_state.status
        /\ last'.val \notin TableRow(camera_state.status))
          => (last'.res = "False" /\ camera_state' = camera_state)
      ]_vars
C8_Witness ==
    /\ last.op = "transition_to"
    /\ last.val = "active"
    /\ last.aux = "error"
    /\ last.res = "False"
    /\ camera_state.error_message = "lens fault"

IsPrefix(s, t) == Len(s) <= Len(t) /\ SubSeq(t, 1, Len(s)) = s

\* C9: transition_to along an edge of the table returns true, sets status to
\* the target, resets entered_at to the time of the call and appends exactly
\* one (status, entered_at) entry to the history; no operation removes or
\* rewrites an earlier entry of the history.
C9_AllowedEdgeAppendsOneEntry ==
    [][/\ (last'.op = "transition_to" /\ last'.val \in TableRow(camera_state.status))
            => /\ last'.res = "True"
               /\ camera_state'.status = last'.val
               /\ camera_state'.entered_at = now
               /\ camera_state'.history = Append(camera_state.history, <<last'.val, now>>)
       /\ IsPrefix(camera_state.history, camera_state'.history)
      ]_vars
C9_Witness ==
    /\ last.op = "transition_to"
    /\ last.res = "True"
    /\ last.val # last.aux
    /\ Len(camera_state.history) >= 3
    /\ camera_state.entered_at > 0

\* Calling transition_to twice with the same arguments leaves what one call
\* leaves and returns what one call returns.
RepeatIsOnce ==
    \A s \in CameraStatus, r \in Reasons :
        LET once == transition_to(camera_state, s, r, now)
            twice == transition_to(once.cs, s, r, now)
        IN twice.cs = once.cs /\ twice.ret = once.ret

\* C10: transition_to(current status) returns true for every status and
\* changes nothing (no history entry, entered_at and the error message kept);
\* repeating any transition_to call is the same as calling it once.
C10_SameStateIsNoOp ==
    /\ []RepeatIsOnce
    /\ [][(last'.op = "transition_to" /\ last'.val = camera_state.status)
            => (last'.res = "True" /\ camera_state' = camera_state)
        ]_vars
C10_Witness ==
    /\ last.op = "transition_to"
    /\ last.val = "error"
    /\ last.aux = "error"
    /\ last.who = "None"
    /\ last.res = "True"
    /\ camera_state.error_message = "lens fault"
    /\ now > camera_state.entered_at

\* A step that changed the camera's status: a successful transition.
Transitioned == camera_state'.status # camera_state.status

\* C11: the stored error message is the reason given on the most recent
\* successful transition into ERROR and every other successful transition
\* clears it; in every reachable state an error message is stored only
\* while the status is ERROR.
C11_ErrorMessageOnlyInError ==
    /\ [](camera_state.error_message # "None" => camera_state.status = "error")
    /\ [][/\ (Transitioned /\ camera_state'.status = "error")
                => /\ last'.op = "transition_to"
                   /\ camera_state'.error_message = last'.who
          /\ (Transitioned /\ camera_state'.status # "error")
                => camera_state'.error_message = "None"
          /\ ~Transitioned => camera_state'.error_message = camera_state.error_message
        ]_vars
C11_Witness ==
    /\ last.op = "transition_to"
    /\ last.aux = "error"
    /\ last.val = "calibrating"
    /\ last.res = "True"
    /\ camera_state.error_message = "None"
    /\ \E i \in 1..Len(camera_state.history) :
          camera_state.history[i][1] = "inactive"

C13_EmptyPollKeepsExplicitActive ==
    [][(/\ last.op = "transition_to"
        /\ last.val = "active"
        /\ last.aux # "active"
        /\ last.res = "True"
        /\ last'.op = "check_room"
        /\ last'.val = "empty")
          => camera_state'.status = "active"
      ]_vars

Caller == last'.who

\* C16: on_heartbeat_detected(value) with value > 0 records
\* last_signal_time = now and sets the room OCCUPIED, whatever the room's
\* state and the other detectors' state were, and changes no other
\* detector; with value <= 0 it changes neither last_signal_time nor the
\* room's state nor the room's timer.
C16_HeartbeatSetsOccupied ==
    [][last'.op = "on_heartbeat_detected" =>
         IF last'.val \in {ToString(h) : h \in {x \in HeartRates : x > 0}}
         THEN /\ last_heartbeat_time' = [last_heartbeat_time EXCEPT ![Caller] = now]
              /\ room_state' = "occupied"
         ELSE UNCHANGED <<last_heartbeat_time, room_state, empty_timer, orphans>>
      ]_vars
C16_Witness ==
    /\ last.op = "on_heartbeat_detected"
    /\ last.val = "0"
    /\ last.aux = "empty"
    /\ room_state = "empty"
    /\ empty_timer.st = "armed"
    /\ last_heartbeat_time[last.who] = NoSignal
    /\ \E e \in Threads : last_heartbeat_time[e] # NoSignal

\* C17: check_heartbeat_timeout invokes on_heartbeat_timeout exactly when
\* last_signal_time is set and now - last_signal_time is strictly greater
\* than heartbeat_timeout; when the elapsed time equals the timeout or is
\* smaller, or the detector never signaled, the detector and the room are
\* left as they were.
C17_TimeoutStrictlyAfter ==
    [][last'.op = "check_heartbeat_timeout" =>
         IF /\ last_heartbeat_time[Caller] # NoSignal
            /\ now - last_heartbeat_time[Caller] > heartbeat_timeout[Caller]
         THEN /\ last'.res = "timeout"
              /\ last_heartbeat_time'[Caller] = NoSignal
         ELSE /\ last'.res # "timeout"
              /\ UNCHANGED <<last_heartbeat_time, heartbeat_timeout, room_state,
                             empty_timer, orphans>>
      ]_vars
C17_Witness ==
    /\ last.op = "check_heartbeat_timeout"
    /\ last.res = "live"
    /\ room_state = "occupied"
    /\ now - last_heartbeat_time[last.who] = heartbeat_timeout[last.who]

C19_EarlierDetectorTimeoutKeepsRoom ==
    [][(/\ last'.op = "check_heartbeat_timeout"
        /\ last'.res = "timeout"
        /\ room_state = "occupied"
        /\ \E e \in Threads \ {Caller} :
              last_heartbeat_time[e] > last_heartbeat_time[Caller])
          => room_state' = "occupied"
      ]_vars

\* C20: the room is OCCUPIED while any detector has a live heartbeat: one
\* that it signaled and that has not yet outlasted its heartbeat_timeout.
C20_OccupiedWhileAnyHeartbeatLive ==
    (\E e \in Threads :
        /\ last_heartbeat_time[e] # NoSignal
        /\ now - last_heartbeat_time[e] <= heartbeat_timeout[e])
      => room_state = "occupied"

\* C21: each capture the delayed-capture timer requests goes through the
\* camera's own capture operation: an image saved for a camera counts in
\* that camera's capture_count.
C21_TimerCaptureThroughCamera ==
    [][(last'.op = "capture" /\ last'.who = "timer" /\ last'.res = "saved")
          => capture_count'[last'.val] = capture_count[last'.val] + 1
      ]_vars

\* The timers running _trigger_capture.
FiringCount ==
    (IF empty_timer.st = "firing" THEN 1 ELSE 0)
        + BagCardinality([tm \in {x \in DOMAIN orphans : x.st = "firing"} |-> orphans[tm]])

\* C22: the last thing a firing of the timer does, after the per-camera
\* captures, is to invoke the capture-complete callback.
C22_FiringEndsWithCallback ==
    [][FiringCount' < FiringCount => last'.op = "capture_complete"]_vars

\* C28: capture_baseline with no matching room returns ok=false, rooms=0,
\* captures_requested=0 and calls no camera; otherwise each camera of the
\* room adds one to captures_requested, and one to captures_succeeded
\* exactly when its image was saved, a failed capture raising nothing, and
\* the summary returned has ok=true, captures_requested equal to the number
\* of cameras and captures_succeeded <= captures_requested.
C28_BaselineSummaryCounts ==
    /\ []((baseline = 0 /\ summary.ok)
            => /\ summary.captures_requested = Len(RoomCameras)
               /\ summary.captures_succeeded <= summary.captures_requested)
    /\ [][/\ (last'.op = "capture_baseline" /\ last'.res = "no_match")
               => /\ summary' = Summary(FALSE, 0, 0, 0)
                  /\ baseline' = 0
                  /\ UNCHANGED capture_count
          /\ (baseline > 0 /\ baseline' # baseline)
               => /\ last'.who = "baseline"
                  /\ last'.res \in CaptureImageOutcomes
                  /\ summary'.captures_requested = summary.captures_requested + 1
                  /\ summary'.captures_succeeded =
                        summary.captures_succeeded + (IF last'.res = "saved" THEN 1 ELSE 0)
                  /\ summary'.ok
        ]_vars
C28_Witness ==
    /\ baseline = 0
    /\ summary = Summary(TRUE, 1, 2, 1)
    /\ last.who = "baseline"
    /\ last.res = "exception"
    /\ room_state = "occupied"

NoDuplicates(list) == \A i, j \in 1..Len(list) : list[i] = list[j] => i = j

\* C29: adding a camera or a detector that is already in the room, and
\* removing one that is not in it, leave the collections unchanged and raise
\* nothing; neither collection ever holds the same object twice.
C29_MembershipIdempotent ==
    /\ [](NoDuplicates(cameras) /\ NoDuplicates(person_detectors))
    /\ [][/\ (last'.op = "add_camera" /\ last'.val \in Range(cameras))
               => /\ UNCHANGED <<cameras, person_detectors>>
                  /\ last'.res = "already in room"
          /\ (last'.op = "remove_camera" /\ last'.val \notin Range(cameras))
               => /\ UNCHANGED <<cameras, person_detectors>>
                  /\ last'.res = "not found"
          /\ (last'.op = "add_person_detector" /\ last'.val \in Range(person_detectors))
               => /\ UNCHANGED <<cameras, person_detectors>>
                  /\ last'.res = "already in room"
          /\ (last'.op = "remove_person_detector" /\ last'.val \notin Range(person_detectors))
               => /\ UNCHANGED <<cameras, person_detectors>>
                  /\ last'.res = "not found"
        ]_vars
C29_Witness ==
    /\ last = Ev("add_camera", "", "cam1", "", "already in room")
    /\ cameras = <<"cam2", "cam1">>
    /\ person_detectors = <<"d1">>

\* C30: set_camera_inactive on a camera of the room applies the camera's
\* transition function with INACTIVE and leaves the camera INACTIVE whatever
\* its status was; it changes no other camera, no collection and nothing of
\* the room's state; on a camera that is not in the room it changes nothing.
C30_SetCameraInactiveOnlyThatCamera ==
    [][last'.op = "set_camera_inactive"
         => LET c == last'.val IN
            /\ UNCHANGED <<room_state, empty_timer, orphans, cameras, person_detectors>>
            /\ \A o \in AllCameras \ {c} : camera_states'[o] = camera_states[o]
            /\ IF c \in Range(cameras)
               THEN /\ camera_states'[c].cs.status = "inactive"
                    /\ camera_states'[c].cs =
                         transition_to(camera_states[c].cs, "inactive",
                                       "Forced by room controller", now).cs
                    /\ last'.res = "True"
               ELSE camera_states'[c] = camera_states[c]
      ]_vars
C30_Witness ==
    /\ last = Ev("set_camera_inactive", "", "cam1", "error", "True")
    /\ cameras = <<"cam1", "cam2">>
    /\ camera_states["cam1"].cs.status = "inactive"
    /\ camera_states["cam2"].cs.status = "recording"
    /\ room_state = "occupied"

\* C23: a detector task in which connect() raised does not end while the
\* controller's running flag is set (it goes on to connect again).
C23_ConnectErrorDoesNotEndTask ==
    [][\A k \in DOMAIN tasks :
          (tasks[k].error = "connect" /\ tasks[k].st # "exited" /\ tasks'[k].st = "exited")
             => ~running
      ]_vars

\* C24: shutdown() on a controller that is not running changes nothing, and
\* a running controller's shutdown() clears the running flag; a task that a
\* completed shutdown() has let go of never passes the test of its loop into
\* another iteration.
C24_ShutdownTasksLeaveLoop ==
    [][/\ (last'.op = "shutdown" /\ last'.res = "not running")
            => UNCHANGED <<lifeVars, memVars, room_state>>
       /\ (shutdown_pc = 0 /\ shutdown_pc' > 0) => ~running'
       /\ \A k \in DOMAIN tasks :
            (tasks[k].st = "test" /\ tasks'[k].st = "sleep") => k \in Range(threads)
      ]_vars

\* The tasks of tasks' that the step has launched for device dev.
LaunchedFor(kind, dev) ==
    {k \in (DOMAIN tasks') \ (DOMAIN tasks) : tasks'[k].kind = kind /\ tasks'[k].dev = dev}

\* C25: start() on a controller that is running launches no task and
\* changes no state; otherwise, its listener started, it launches exactly
\* one task for each camera and one for each detector of every registered
\* room, and no other.
C25_StartLaunchesOneTaskPerDevice ==
    [][(last'.op = "start" /\ last'.res # "OSError")
         => IF running
            THEN UNCHANGED <<lifeVars, memVars, roomVars, camVars, detVars, ctlVars>>
            ELSE LET n == IF ROOM_ID \in Range(rooms) THEN 1 ELSE 0 IN
                 /\ running'
                 /\ SubSeq(tasks', 1, Len(tasks)) = tasks
                 /\ \A c \in AllCameras :
                      Cardinality(LaunchedFor("camera", c)) =
                         IF c \in Range(cameras) THEN n ELSE 0
                 /\ \A d \in AllDetectors :
                      Cardinality(LaunchedFor("detector", d)) =
                         IF d \in Range(person_detectors) THEN n ELSE 0
                 /\ Len(tasks') - Len(tasks) = n * (Len(cameras) + Len(person_detectors))
                 /\ UNCHANGED <<rooms, memVars, room_state>>
      ]_vars
C25_Witness ==
    /\ last = Ev("start", "", "", "", "already running")
    /\ running
    /\ Len(tasks) = 3
    /\ person_detectors = <<"d1", "d2">>
    /\ threads = <<1, 2, 3>>

\* C26: a step in which an exception is raised in one task changes no other
\* task, not the running flag, not the room; a valid heartbeat of a detector
\* whose task runs still sets the room occupied; and a shutdown() that has
\* begun returns.
C26_TaskFailureIsIsolated ==
    /\ [][/\ last'.res = "raised"
               => /\ \A k \in DOMAIN tasks :
                       tasks'[k] # tasks[k] => tasks[k].dev = last'.who
                  /\ Cardinality({k \in DOMAIN tasks : tasks'[k] # tasks[k]}) = 1
                  /\ UNCHANGED <<running, rooms, threads, shutdown_pc, room_state,
                                 empty_timer, last_heartbeat_time, memVars>>
          /\ (last'.op = "handle_state_change" /\ last'.val = "110"
                 /\ last'.res = "called")
               => room_state' = "occupied"
        ]_vars
    /\ (shutdown_pc > 0) ~> (shutdown_pc = 0)
C26_Witness ==
    /\ last = Ev("handle_state_change", "d2", "110", HeartbeatKey, "called")
    /\ room_state = "occupied"
    /\ running
    /\ Len(tasks) = 3
    /\ tasks[1].st = "exited"
    /\ tasks[2].st = "exited"
    /\ tasks[3].st = "sleep"

\* The camera was INACTIVE at some time from t1 to t2.
InactiveDuring(t1, t2) ==
    \E i \in 1..Len(camera_state.history) :
        /\ camera_state.history[i][1] = "inactive"
        /\ camera_state.history[i][2] <= t2
        /\ i < Len(camera_state.history) => camera_state.history[i + 1][2] >= t1

C31_DetectorExitDisconnects ==
    [][\A k \in DOMAIN tasks :
          /\ (/\ tasks[k].kind = "detector"
              /\ tasks[k].st # "exited"
              /\ tasks'[k].st = "exited")
                => /\ tasks[k].st = "disconnect"
                   /\ last'.op = "disconnect"
                   /\ last'.who = tasks[k].dev
                   /\ last'.res \in {"no client", "error logged", "disconnected"}
          /\ (/\ tasks[k].kind = "detector"
              /\ tasks'[k] # tasks[k]
              /\ last'.res = "raised")
                => tasks'[k].st = "disconnect"
      ]_vars
C31_Witness ==
    /\ last.op = "disconnect"
    /\ last.aux = "unconnected"
    /\ last.res = "error logged"
    /\ \E k \in DOMAIN tasks : tasks[k].dev = last.who /\ tasks[k].st = "exited"
    /\ running

C38_TimeoutOncePerSilence ==
    [][/\ (last'.op = "check_heartbeat_timeout" /\ last'.res = "timeout")
            => last_heartbeat_time'[Caller] = NoSignal
       /\ (last'.op = "check_heartbeat_timeout"
              /\ last_heartbeat_time[Caller] = NoSignal)
            => UNCHANGED <<room_state, empty_timer, orphans, last_heartbeat_time>>
       /\ \A d \in Threads :
             (last_heartbeat_time[d] = NoSignal /\ last_heartbeat_time'[d] # NoSignal)
               => /\ last'.op \in {"on_heartbeat_detected", "handle_state_change"}
                  /\ last'.who = d
                  /\ last'.val \in {ToString(h) : h \in {x \in HeartRates : x > 0}}
      ]_vars
C38_Witness ==
    /\ last = Ev("check_heartbeat_timeout", "d1", "", "occupied", "never")
    /\ room_state = "occupied"
    /\ last_heartbeat_time["d1"] = NoSignal
    /\ last_heartbeat_time["d2"] = now
    /\ now >= 2 * TickStep
    /\ cut_short

\* The tasks polling for camera c that have not left their loop.
PollTasks(c) ==
    {k \in DOMAIN tasks :
        tasks[k].kind = "camera" /\ tasks[k].dev = c /\ tasks[k].st # "exited"}

\* C37: while the controller runs, also after a shutdown() followed by a
\* start(), each camera has at most one poll task in its loop: a task that
\* outlived the join of shutdown() does not poll beside the new task.
C37_OnePollTaskPerCamera ==
    (running /\ shutdown_pc = 0)
        => \A c \in AllCameras : Cardinality(PollTasks(c)) <= 1

\* C35: a timer is armed only while the room is EMPTY: once the writers
\* racing in the setter have all returned, no timer is left armed in a room
\* whose state is OCCUPIED.
C35_NoTimerArmedWhileOccupied ==
    (room_state = "occupied" /\ \A t \in Threads : pc[t] = "idle")
        => ArmedCount = 0

\* C36: each empty period produces at most one capture batch: between two
\* changes of the room's state from OCCUPIED to EMPTY at most one timer
\* fires, whatever EMPTY writes follow the firing.
C36_OneFiringPerEmptyPeriod ==
    fired <= 1

\* C39: while a detector keeps delivering positive heartbeats less than
\* capture_delay apart, no delayed capture fires: no timer fires when some
\* detector's last positive heartbeat is less than capture_delay old, the
\* detector's call having returned from the room's setter.
C39_NoFireUnderHeartbeats ==
    last.op = "fire"
        => \A d \in Threads :
              \/ last_heartbeat_time[d] = NoSignal
              \/ pc[d] # "idle"
              \/ now - last_heartbeat_time[d] >= capture_delay

\* C40: a start() that fails while starting the control listener does not
\* leave the controller marked as running (so that a later start() launches
\* the tasks).
C40_FailedStartNotRunning ==
    (last.op = "start" /\ last.res = "OSError") => ~running

\* C33: shutdown() cancels the delayed-capture timers: once shutdown() has
\* returned, and until the controller is started again, no timer fires (the
\* threads that write the room's state have ended, so a timer that fires
\* then was armed before the shutdown).
C33_NoFireAfterShutdown ==
    (~running /\ shutdown_pc = 0 /\ Len(tasks) > 0) => last.op # "fire"

\* C34: transition_to is safe against concurrent callers: whenever no
\* caller is inside it, the last entry of the history is the current status
\* and every two consecutive entries of the history are two distinct
\* statuses joined by an edge of TRANSITIONS.
C34_HistoryFollowsTable ==
    (\A c \in Callers : transit[c].pc = "idle")
        => /\ camera_state.history[Len(camera_state.history)][1] = camera_state.status
           /\ \A i \in 1..(Len(camera_state.history) - 1) :
                 /\ camera_state.history[i + 1][1] # camera_state.history[i][1]
                 /\ camera_state.history[i + 1][1]
                        \in TRANSITIONS(camera_state.history[i][1])


====
